---- MODULE Spec2Model ----
(***************************************************************************)
(* A model of rasa/core/policies/ted_policy.py: the TEDPolicy inference    *)
(* router (_pick_confidence, predict_action_probabilities and the entity   *)
(* event), the policy life cycle (construction, train, persist, load), the *)
(* TED model's data check, the label sampling metadata and the negative    *)
(* label sampling of one training step.                                    *)
(*                                                                         *)
(* Scores (confidences, similarities) are integers 0..MaxScore: the code   *)
(* only compares them (np.max, >), so only their order matters.  Arrays    *)
(* are functions over 0..n-1, as the code indexes them.                    *)
(***************************************************************************)
EXTENDS Integers, Sequences, FiniteSets, TLC

VARIABLES
    \* ---- TEDPolicy object
    model,                  \* self.model: "None" or "TED"
    fake_features,          \* self.fake_features: the set of attribute keys it holds
    only_e2e,               \* self.only_e2e
    config,                 \* self.config (the entries the modelled code reads)
    persisted,              \* what persist() left on disk
    \* ---- one call of predict_action_probabilities / _pick_confidence
    pc,                     \* position of the caller
    tracker,                \* tracker.latest_action_name of the call
    tracker_state_features, \* variants built by _featurize_tracker_for_e2e
    outputs,                \* result of model.run_inference
    picked,                 \* result of _pick_confidence
    prediction,             \* the PolicyPrediction returned
    \* ---- TED model: construction
    data_signature,         \* keys of the data signature handed to TED(...)
    ted,                    \* outcome of the construction
    \* ---- TED model: label space and one training step
    tf_label_data,          \* the label ids and, per label key, the presence mask
    label_batch_size,       \* config[LABEL_BATCH_SIZE]
    label_sampling_metadata,\* self._label_sampling_metadata
    positive_label_ids,     \* the batch's label ids
    step,                   \* outcome of batch_loss (label side)
    \* ---- TED model: one batch through the dialogue side
    tf_batch_data,          \* the batch in model data format
    max_history_featurizer_is_used, \* self.max_history_featurizer_is_used
    forward,                \* outcome of batch_loss (dialogue side) / batch_predict
    \* ---- TEDPolicy.train(): the entity tags and the calls of _create_model_data
    entity_tags,            \* per training tracker, per turn, the tag ids of the text
    train_call              \* position of train() and what its last call returned

policyVars == <<model, fake_features, only_e2e, config, persisted>>
callVars == <<pc, tracker, tracker_state_features, outputs, picked, prediction>>
buildVars == <<data_signature, ted>>
trainVars == <<tf_label_data, label_batch_size, label_sampling_metadata,
               positive_label_ids, step>>
batchVars == <<tf_batch_data, max_history_featurizer_is_used, forward>>
entityVars == <<entity_tags, train_call>>
vars == <<model, fake_features, only_e2e, config, persisted,
          pc, tracker, tracker_state_features, outputs, picked, prediction,
          data_signature, ted,
          tf_label_data, label_batch_size, label_sampling_metadata,
          positive_label_ids, step,
          tf_batch_data, max_history_featurizer_is_used, forward,
          entity_tags, train_call>>

(***************************************************************************)
(* Bounds of the model.                                                    *)
(***************************************************************************)
NumActions == 2
MaxScore == 1
MaxBatch == 3
MaxLabels == 3

\* Program constants.
RANKING_LENGTH == 10
UNSET_LABEL_BATCH_SIZE == -1

INTENT == "intent"
TEXT == "text"
ACTION_NAME == "action_name"
ACTION_TEXT == "action_text"
LABEL == "label"
SLOTS == "slots"
ENTITIES == "entities"
ACTION_LISTEN_NAME == "action_listen"
OTHER_ACTION_NAME == "utter_other"

Max(a, b) == IF a >= b THEN a ELSE b
Min(a, b) == IF a <= b THEN a ELSE b

ActionIds == 0 .. (NumActions - 1)
Scores == 0 .. MaxScore

\* A score vector over the domain's actions: one action at hi, the rest at lo.
ScoreRow(top, hi, lo) == [a \in ActionIds |-> IF a = top THEN hi ELSE lo]
ScoreRows ==
    {ScoreRow(t[1], t[2], t[3]) :
        t \in {u \in ActionIds \X Scores \X Scores : u[3] <= u[2]}}

\* np.max and np.argmax (the first index holding the maximum) of a vector.
NpMax(row) == CHOOSE m \in {row[a] : a \in DOMAIN row} :
                  \A a \in DOMAIN row : row[a] <= m
NpArgMax(row) == CHOOSE a \in DOMAIN row :
                  /\ row[a] = NpMax(row)
                  /\ \A b \in DOMAIN row : row[b] = NpMax(row) => a <= b

\* array.shape[0]
Shape0(m) == Cardinality(DOMAIN m)

\* Score matrices of b rows. Up to two rows every combination of rows; larger
\* batches (never built by the policy itself) repeat one row.
ScoreMatrices(b) ==
    IF b <= 2 THEN [0 .. (b - 1) -> ScoreRows]
    ELSE {[i \in 0 .. (b - 1) |-> r] : r \in ScoreRows}

NoRow == <<>>

(***************************************************************************)
(* TEDPolicy._pick_confidence                                              *)
(***************************************************************************)
PickConfidence_Truncating(confidences, similarities, e2e_only, threshold) ==
    IF Shape0(confidences) >= 2
    THEN IF /\ NpMax(confidences[1]) > threshold
            /\ NpMax(similarities[1]) > NpMax(similarities[0])
         THEN [raised |-> "none", confidence |-> confidences[1], is_e2e |-> TRUE]
         ELSE [raised |-> "none", confidence |-> confidences[0], is_e2e |-> FALSE]
    ELSE [raised |-> "none", confidence |-> confidences[0], is_e2e |-> e2e_only]

PickConfidence_NonStrict(confidences, similarities, e2e_only, threshold) ==
    IF Shape0(confidences) > 2
    THEN [raised |-> "ValueError", confidence |-> NoRow, is_e2e |-> FALSE]
    ELSE IF Shape0(confidences) = 2
    THEN IF /\ NpMax(confidences[1]) > threshold
            /\ NpMax(similarities[1]) >= NpMax(similarities[0])
         THEN [raised |-> "none", confidence |-> confidences[1], is_e2e |-> TRUE]
         ELSE [raised |-> "none", confidence |-> confidences[0], is_e2e |-> FALSE]
    ELSE [raised |-> "none", confidence |-> confidences[0], is_e2e |-> e2e_only]

PickConfidence_SingleNeverE2E(confidences, similarities, e2e_only, threshold) ==
    IF Shape0(confidences) > 2
    THEN [raised |-> "ValueError", confidence |-> NoRow, is_e2e |-> FALSE]
    ELSE IF Shape0(confidences) = 2
    THEN IF /\ NpMax(confidences[1]) > threshold
            /\ NpMax(similarities[1]) > NpMax(similarities[0])
         THEN [raised |-> "none", confidence |-> confidences[1], is_e2e |-> TRUE]
         ELSE [raised |-> "none", confidence |-> confidences[0], is_e2e |-> FALSE]
    ELSE [raised |-> "none", confidence |-> confidences[0], is_e2e |-> FALSE]

PickConfidence(confidences, similarities, e2e_only, threshold) ==
    IF Shape0(confidences) > 2
    THEN [raised |-> "ValueError", confidence |-> NoRow, is_e2e |-> FALSE]
    ELSE IF Shape0(confidences) = 2
    THEN IF /\ NpMax(confidences[1]) > threshold
            /\ NpMax(similarities[1]) > NpMax(similarities[0])
         THEN [raised |-> "none", confidence |-> confidences[1], is_e2e |-> TRUE]
         ELSE [raised |-> "none", confidence |-> confidences[0], is_e2e |-> FALSE]
    ELSE [raised |-> "none", confidence |-> confidences[0], is_e2e |-> e2e_only]

(***************************************************************************)
(* TEDPolicy: construction, train, persist, load                           *)
(***************************************************************************)
UserAttributes == {INTENT, TEXT}

\* 0.5 of the score scale (the default of E2E_CONFIDENCE_THRESHOLD).
DefaultThreshold == MaxScore \div 2
DefaultConfig ==
    [e2e_confidence_threshold |-> DefaultThreshold,
     entity_recognition |-> TRUE,
     ranking_length |-> RANKING_LENGTH,
     model_confidence |-> "softmax"]
\* The configurations a policy is constructed with (keyword arguments override
\* the defaults).
Configs ==
    [e2e_confidence_threshold : Scores,
     entity_recognition : BOOLEAN,
     ranking_length : {RANKING_LENGTH},
     model_confidence : {"softmax"}]

\* __init__: only_e2e is derived from the fake features handed in.
OnlyE2E(features) == TEXT \in features /\ INTENT \notin features

NoOutputs == [action_scores |-> <<>>, similarities |-> <<>>, entity_tags |-> FALSE]
NotPicked == [raised |-> "not called", confidence |-> NoRow, is_e2e |-> FALSE]
NoPrediction ==
    [kind |-> "none", probabilities |-> NoRow, divisor |-> 1,
     is_end_to_end_prediction |-> FALSE, optional_events |-> "None"]

\* A model directory without a persisted data example.
NothingPersisted ==
    [data_example |-> FALSE, fake_features |-> {}, config |-> DefaultConfig]

CallIdle ==
    /\ pc = "ready"
    /\ tracker = "none"
    /\ tracker_state_features = <<>>
    /\ outputs = NoOutputs
    /\ picked = NotPicked
    /\ prediction = NoPrediction

CallReset ==
    /\ pc' = "ready"
    /\ tracker' = "none"
    /\ tracker_state_features' = <<>>
    /\ outputs' = NoOutputs
    /\ picked' = NotPicked
    /\ prediction' = NoPrediction

\* self.all_labels_embed = None: no cached label embeddings.
NoLabelsEmbed_Empty == [is_none |-> FALSE, rows |-> <<>>]

NoLabelsEmbed == [is_none |-> TRUE, rows |-> <<>>]

\* No TED model under construction.
NotConstructed ==
    [state |-> "idle", raised |-> "none", tf_label_data |-> FALSE,
     layers |-> FALSE, all_labels_embed |-> NoLabelsEmbed]

BuildIdle ==
    /\ data_signature = {}
    /\ ted = NotConstructed

\* No label data, no training step.
NoLabelData == [label_ids |-> <<>>, mask |-> <<>>]
NoMetadata == <<>>
NoStep ==
    [state |-> "idle", raised |-> "none", sampled |-> <<>>,
     negative_label_ids |-> <<>>, all_unique_label_ids |-> <<>>,
     all_labels_embed |-> <<>>, positive_labels_embed |-> <<>>,
     negative_labels_embed |-> <<>>]
TrainIdle ==
    /\ tf_label_data = NoLabelData
    /\ label_batch_size = UNSET_LABEL_BATCH_SIZE
    /\ label_sampling_metadata = NoMetadata
    /\ positive_label_ids = <<>>
    /\ step = NoStep

\* No batch, no pass through the dialogue side.
NoBatch ==
    [dialogue_lengths |-> <<>>, dialogue_indices |-> <<>>, mask |-> <<>>,
     sentence |-> <<>>, sequence_lengths |-> <<>>]
NoForward == [state |-> "idle", handler |-> "none", raised |-> "none"]
BatchIdle ==
    /\ tf_batch_data = NoBatch
    /\ max_history_featurizer_is_used = FALSE
    /\ forward = NoForward

\* No training call: no entity tags featurized, no call of _create_model_data.
NoTraining ==
    [state |-> "idle", configured |-> FALSE, served |-> 0,
     entity_tags_data |-> <<>>, produced |-> FALSE, model_entity_recognition |-> FALSE]
EntityIdle ==
    /\ entity_tags = <<>>
    /\ train_call = NoTraining

\* TEDPolicy(**kwargs): no model, no fake features.
PolicyInit ==
    /\ model = "None"
    /\ fake_features = {}
    /\ only_e2e = OnlyE2E({})
    /\ config \in Configs
    /\ persisted = NothingPersisted

\* train() with no training trackers logs an error and returns.
TrainWithoutData ==
    /\ pc = "ready"
    /\ UNCHANGED policyVars
    /\ UNCHANGED <<callVars, entityVars>>
    /\ UNCHANGED <<buildVars, batchVars, trainVars>>

\* train(): _create_model_data (called with label ids) replaces fake_features by
\* the attributes observed in the training data and _create_data_for_entities
\* switches entity recognition off when there is no real entity tag; the model
\* is built and fitted.  only_e2e is assigned in __init__ only.
Train ==
    /\ pc = "ready"
    /\ \E observed \in (SUBSET UserAttributes) \ {{}}, real_tags \in BOOLEAN :
        /\ fake_features' = observed
        /\ config' = [config EXCEPT
                        !.entity_recognition = config.entity_recognition /\ real_tags]
    /\ model' = "TED"
    /\ UNCHANGED <<only_e2e, persisted>>
    /\ UNCHANGED <<callVars, entityVars>>
    /\ UNCHANGED <<buildVars, batchVars, trainVars>>

\* persist(): nothing is written without a trained model.
Persist ==
    /\ pc = "ready"
    /\ persisted' = IF model = "None" THEN persisted
                    ELSE [data_example |-> TRUE, fake_features |-> fake_features,
                          config |-> config]
    /\ UNCHANGED <<model, fake_features, only_e2e, config>>
    /\ UNCHANGED <<callVars, entityVars>>
    /\ UNCHANGED <<buildVars, batchVars, trainVars>>

\* load(): without a persisted data example the policy is cls(featurizer=...),
\* otherwise it is constructed from the persisted model, fake features and meta.
Load ==
    /\ pc = "ready"
    /\ IF ~persisted.data_example
       THEN /\ model' = "None"
            /\ fake_features' = {}
            /\ only_e2e' = OnlyE2E({})
            /\ config' = DefaultConfig
       ELSE /\ model' = "TED"
            /\ fake_features' = persisted.fake_features
            /\ only_e2e' = OnlyE2E(persisted.fake_features)
            /\ config' = persisted.config
    /\ UNCHANGED persisted
    /\ UNCHANGED <<callVars, entityVars>>
    /\ UNCHANGED <<buildVars, batchVars, trainVars>>

(***************************************************************************)
(* TEDPolicy: prediction                                                   *)
(***************************************************************************)
LatestActionNames == {ACTION_LISTEN_NAME, OTHER_ACTION_NAME}

\* _featurize_tracker_for_e2e: the variants put in the batch, each named by
\* what it uses for the last user input.
FeaturizeTrackerForE2E_AlwaysBoth(latest_action_name, features, e2e_only) ==
    <<IF e2e_only THEN TEXT ELSE INTENT>> \o <<TEXT>>

FeaturizeTrackerForE2E(latest_action_name, features, e2e_only) ==
    <<IF e2e_only THEN TEXT ELSE INTENT>>
    \o (IF /\ latest_action_name = ACTION_LISTEN_NAME
           /\ TEXT \in features
           /\ ~e2e_only
        THEN <<TEXT>> ELSE <<>>)

\* What model.run_inference can return for a batch of b variants.  The action
\* scores of a variant are its similarities passed through the confidence
\* normalisation, which keeps their order.
SameOrder(c, s) ==
    \A a \in ActionIds, b \in ActionIds : (s[a] < s[b]) <=> (c[a] < c[b])
VariantOutputs == {v \in ScoreRows \X ScoreRows : SameOrder(v[1], v[2])}
InferenceOutputs(b) ==
    {[action_scores |-> [i \in 0 .. (b - 1) |-> v[i][1]],
      similarities |-> [i \in 0 .. (b - 1) |-> v[i][2]],
      entity_tags |-> e] :
        v \in [0 .. (b - 1) -> VariantOutputs], e \in BOOLEAN}

RECURSIVE SumOver(_, _)
SumOver(row, ids) ==
    IF ids = {} THEN 0
    ELSE LET a == CHOOSE x \in ids : TRUE
         IN row[a] + SumOver(row, ids \ {a})

\* rasa.utils.train_utils.normalize: keep the ranking_length highest values,
\* zero the others, and divide by the sum when it is positive.  The quotient
\* is kept as (values, divisor).
KthLargest(row, k) ==
    CHOOSE v \in {row[a] : a \in DOMAIN row} :
        /\ Cardinality({a \in DOMAIN row : row[a] > v}) < k
        /\ Cardinality({a \in DOMAIN row : row[a] >= v}) >= k
Normalize(row, ranking_length) ==
    LET kept == IF 0 < ranking_length /\ ranking_length < Shape0(row)
                THEN [a \in DOMAIN row |->
                        IF row[a] < KthLargest(row, ranking_length) THEN 0 ELSE row[a]]
                ELSE row
        total == SumOver(kept, DOMAIN kept)
    IN [values |-> kept, divisor |-> IF total > 0 THEN total ELSE 1]

\* Policy._default_predictions: a zero for every action of the domain.
DefaultPredictions == [a \in ActionIds |-> 0]

\* _create_optional_event_for_entities
CreateOptionalEventForEntities_IgnoringBranch(out, is_e2e_prediction, latest_action_name, cfg) ==
    IF latest_action_name # ACTION_LISTEN_NAME THEN "None"
    ELSE IF ~cfg.entity_recognition THEN "None"
    ELSE IF ~out.entity_tags THEN "None"
    ELSE "EntitiesAdded"

CreateOptionalEventForEntities(out, is_e2e_prediction, latest_action_name, cfg) ==
    IF latest_action_name # ACTION_LISTEN_NAME \/ ~is_e2e_prediction THEN "None"
    ELSE IF ~cfg.entity_recognition THEN "None"
    ELSE IF ~out.entity_tags THEN "None"
    ELSE "EntitiesAdded"

\* The part of predict_action_probabilities after inference.
PredictionFrom(out, latest_action_name, e2e_only, cfg) ==
    LET p == PickConfidence(out.action_scores, out.similarities, e2e_only,
                            cfg.e2e_confidence_threshold)
        n == IF cfg.ranking_length > 0 /\ cfg.model_confidence = "softmax"
             THEN Normalize(p.confidence, cfg.ranking_length)
             ELSE [values |-> p.confidence, divisor |-> 1]
    IN IF p.raised # "none"
       THEN [kind |-> p.raised, probabilities |-> NoRow, divisor |-> 1,
             is_end_to_end_prediction |-> FALSE, optional_events |-> "None"]
       ELSE [kind |-> "model", probabilities |-> n.values, divisor |-> n.divisor,
             is_end_to_end_prediction |-> p.is_e2e,
             optional_events |->
                 CreateOptionalEventForEntities(out, p.is_e2e, latest_action_name, cfg)]

\* predict_action_probabilities without a trained model.
PredictUntrained_Featurizing(latest_action_name) ==
    /\ tracker_state_features' =
           FeaturizeTrackerForE2E(latest_action_name, fake_features, only_e2e)
    /\ outputs' = NoOutputs
    /\ picked' = NotPicked
    /\ prediction' = [kind |-> "ValueError", probabilities |-> NoRow, divisor |-> 1,
                      is_end_to_end_prediction |-> FALSE, optional_events |-> "None"]

PredictUntrained(latest_action_name) ==
    /\ tracker_state_features' = <<>>
    /\ outputs' = NoOutputs
    /\ picked' = NotPicked
    /\ prediction' = [kind |-> "default", probabilities |-> DefaultPredictions,
                      divisor |-> 1, is_end_to_end_prediction |-> FALSE,
                      optional_events |-> "None"]

PredictActionProbabilities ==
    /\ pc = "ready"
    /\ \E latest_action_name \in LatestActionNames :
        /\ tracker' = latest_action_name
        /\ IF model = "None"
           THEN PredictUntrained(latest_action_name)
           ELSE LET features == FeaturizeTrackerForE2E(latest_action_name,
                                                       fake_features, only_e2e)
                IN \E out \in InferenceOutputs(Len(features)) :
                    /\ tracker_state_features' = features
                    /\ outputs' = out
                    /\ picked' = PickConfidence(out.action_scores, out.similarities,
                                                only_e2e, config.e2e_confidence_threshold)
                    /\ prediction' = PredictionFrom(out, latest_action_name,
                                                    only_e2e, config)
    /\ pc' = "predicted"
    /\ UNCHANGED <<policyVars, entityVars, buildVars, batchVars, trainVars>>

\* The caller takes the prediction; the policy is ready for its next call.
ReturnPrediction ==
    /\ pc = "predicted"
    /\ CallReset
    /\ UNCHANGED <<policyVars, entityVars, buildVars, batchVars, trainVars>>

Init ==
    /\ EntityIdle
    /\ PolicyInit
    /\ CallIdle
    /\ BuildIdle
    /\ TrainIdle
    /\ BatchIdle

Next ==
    \/ TrainWithoutData
    \/ Train
    \/ Persist
    \/ Load
    \/ PredictActionProbabilities
    \/ ReturnPrediction

Spec == Init /\ [][Next]_vars

(***************************************************************************)
(* _pick_confidence applied to score matrices of 1..MaxBatch rows          *)
(***************************************************************************)
PickInit ==
    /\ EntityIdle
    /\ model = "TED"
    /\ fake_features \in {{INTENT, TEXT}, {TEXT}}
    /\ only_e2e = OnlyE2E(fake_features)
    /\ config \in {c \in Configs : c.entity_recognition}
    /\ persisted = NothingPersisted
    /\ pc = "pick"
    /\ tracker = "none"
    /\ tracker_state_features = <<>>
    /\ \E b \in 1 .. MaxBatch :
          outputs \in [action_scores : ScoreMatrices(b),
                       similarities : ScoreMatrices(b),
                       entity_tags : {FALSE}]
    /\ picked = NotPicked
    /\ prediction = NoPrediction
    /\ BuildIdle
    /\ TrainIdle
    /\ BatchIdle

PickConfidenceCall ==
    /\ pc = "pick"
    /\ picked' = PickConfidence(outputs.action_scores, outputs.similarities,
                                only_e2e, config.e2e_confidence_threshold)
    /\ pc' = "picked"
    /\ UNCHANGED <<policyVars, entityVars, tracker, tracker_state_features, outputs, prediction,
                   buildVars, batchVars, trainVars>>

PickNext == PickConfidenceCall

SpecPick == PickInit /\ [][PickNext]_vars

(***************************************************************************)
(* TED: construction and its data check                                    *)
(***************************************************************************)
PolicyIdle ==
    /\ model = "None"
    /\ fake_features = {}
    /\ only_e2e = FALSE
    /\ config = DefaultConfig
    /\ persisted = NothingPersisted

SignatureKeys == {INTENT, TEXT, ACTION_NAME, ACTION_TEXT, LABEL, SLOTS, ENTITIES}

\* TED._check_data: the first failing check raises.
CheckData_LabelUnchecked(signature) ==
    IF ~(\E key \in signature : key \in {INTENT, TEXT})
    THEN "RasaException"
    ELSE IF ~(\E key \in signature : key \in {ACTION_NAME, ACTION_TEXT})
    THEN "ValueError"
    ELSE "none"

CheckData(signature) ==
    IF ~(\E key \in signature : key \in {INTENT, TEXT})
    THEN "RasaException"
    ELSE IF ~(\E key \in signature : key \in {ACTION_NAME, ACTION_TEXT})
    THEN "ValueError"
    ELSE IF LABEL \notin signature
    THEN "ValueError"
    ELSE "none"

\* TransformerRasaModel.__init__ stores the signature and calls _check_data
\* before it builds tf_label_data.
TransformerRasaModelInit(signature) ==
    LET raised == CheckData(signature)
    IN [raised |-> raised, tf_label_data |-> (raised = "none")]

\* TED.__init__: the base class constructor, then the metrics, the empty
\* all_labels_embed and _prepare_layers.
TEDInit ==
    /\ ted.state = "idle"
    /\ LET base == TransformerRasaModelInit(data_signature)
       IN ted' = IF base.raised # "none"
                 THEN [state |-> "failed", raised |-> base.raised,
                       tf_label_data |-> base.tf_label_data,
                       layers |-> FALSE, all_labels_embed |-> NoLabelsEmbed]
                 ELSE [state |-> "constructed", raised |-> "none",
                       tf_label_data |-> base.tf_label_data,
                       layers |-> TRUE, all_labels_embed |-> NoLabelsEmbed]
    /\ UNCHANGED <<data_signature, policyVars, callVars, entityVars, trainVars, batchVars>>

BuildInit ==
    /\ EntityIdle
    /\ PolicyIdle
    /\ CallIdle
    /\ data_signature \in SUBSET SignatureKeys
    /\ ted = NotConstructed
    /\ TrainIdle
    /\ BatchIdle

BuildNext == TEDInit

SpecBuild == BuildInit /\ [][BuildNext]_vars

(***************************************************************************)
(* Label space, label sampling metadata, negative sampling                 *)
(***************************************************************************)
LABEL_ACTION_NAME == "label_action_name"
LABEL_ACTION_TEXT == "label_action_text"
LabelKeys == {LABEL_ACTION_NAME, LABEL_ACTION_TEXT}

\* _create_label_data: label ids np.arange(num_actions); a label key is in the
\* label data when some action has features for it, and its mask marks the
\* actions that do.
LabelData(n, attrs) ==
    [label_ids |-> [i \in 0 .. (n - 1) |-> i],
     mask |-> [key \in {k \in LabelKeys : \E i \in 0 .. (n - 1) : k \in attrs[i]} |->
                 [i \in 0 .. (n - 1) |-> key \in attrs[i]]]]
LabelSpaces ==
    UNION {{LabelData(n, attrs) : attrs \in [0 .. (n - 1) -> (SUBSET LabelKeys) \ {{}}]} :
              n \in 1 .. MaxLabels}
\* The configured LABEL_BATCH_SIZE values: -1 (unset), another negative value,
\* 0, and budgets up to one more than the largest label space.
LabelBatchSizes == (-2) .. (MaxLabels + 1)

KeysOf(label_data) == DOMAIN label_data.mask
NumLabelIds(label_data) == Shape0(label_data.label_ids)
\* np.sum(data[MASK])
NumLabelIdsForKey(label_data, key) ==
    Cardinality({i \in DOMAIN label_data.mask[key] : label_data.mask[key][i]})

\* int(x) of the quotient num / den, den > 0: truncation toward zero.
IntTrunc(num, den) == IF num >= 0 THEN num \div den ELSE -((-num) \div den)
\* round(x) of the quotient num / den, num >= 0, den > 0: to the nearest integer,
\* a half to the even one.
RoundHalfEven(num, den) ==
    LET q == num \div den
        r == num % den
    IN IF 2 * r < den THEN q
       ELSE IF 2 * r > den THEN q + 1
       ELSE IF q % 2 = 0 THEN q ELSE q + 1

\* TEDPolicy.get_label_sampling_metadata
KeyLabelBatchSize_Rounded(num_label_ids_for_key, num_labels_ids, batch_size) ==
    IF batch_size = UNSET_LABEL_BATCH_SIZE
    THEN num_label_ids_for_key
    ELSE Max(1, IF batch_size >= 0
                THEN RoundHalfEven(num_label_ids_for_key * batch_size, num_labels_ids)
                ELSE 0)

KeyLabelBatchSize_Whole(num_label_ids_for_key, num_labels_ids, batch_size) ==
    IF batch_size = UNSET_LABEL_BATCH_SIZE
    THEN num_label_ids_for_key
    ELSE Max(1, batch_size)

KeyLabelBatchSize(num_label_ids_for_key, num_labels_ids, batch_size) ==
    IF batch_size = UNSET_LABEL_BATCH_SIZE
    THEN num_label_ids_for_key
    ELSE Max(1, IntTrunc(num_label_ids_for_key * batch_size, num_labels_ids))

GetLabelSamplingMetadata(label_data, batch_size) ==
    [key \in KeysOf(label_data) |->
        [num_label_candidates |-> NumLabelIdsForKey(label_data, key),
         label_batch_size |->
             KeyLabelBatchSize(NumLabelIdsForKey(label_data, key),
                               NumLabelIds(label_data), batch_size)]]

\* An ascending array of the members of a set of integers.
SortedArray(S) ==
    [k \in 0 .. (Cardinality(S) - 1) |->
        CHOOSE v \in S : Cardinality({w \in S : w < v}) = k]
Concat(a, b) ==
    [i \in 0 .. (Shape0(a) + Shape0(b) - 1) |->
        IF i < Shape0(a) THEN a[i] ELSE b[i - Shape0(a)]]
Values(a) == {a[i] : i \in DOMAIN a}

(***************************************************************************)
(* Tensor operations the model code calls.  A feature row is an abstract   *)
(* token; a cell of a dense feature tensor is the set of the rows added up *)
(* in it, {} being the zero vector, so that adding tensors is the cellwise *)
(* union.                                                                  *)
(***************************************************************************)
ZeroVector == {}
Range(n) == [i \in 0 .. (n - 1) |-> i]
\* tf.gather(params, indices)
Gather(params, indices) == [k \in DOMAIN indices |-> params[indices[k]]]
\* tf.boolean_mask of a vector by a vector mask
BooleanMask(a, mask) == Gather(a, SortedArray({i \in DOMAIN a : mask[i]}))
\* The rows 0..n-1 of a ragged tensor one after the other (RaggedTensor.values,
\* and the row-major order of tf.repeat, tf.where and tf.boolean_mask).
RECURSIVE RaggedValues(_, _)
RaggedValues(rows, n) ==
    IF n = 0 THEN <<>> ELSE Concat(RaggedValues(rows, n - 1), rows[n - 1])
\* tf.repeat(values, repeats)
Repeat(values, repeats) ==
    RaggedValues([i \in DOMAIN values |->
                     [k \in 0 .. (repeats[i] - 1) |-> values[i]]], Shape0(values))
\* tf.unique(a)[0]: the values of a in the order of their first occurrence.
TfUnique(a) ==
    BooleanMask(a, [i \in DOMAIN a |-> \A j \in DOMAIN a : j < i => a[j] # a[i]])
\* tf.sort(a): the values of a, repeated ones included, in ascending order.
TfSort(a) ==
    [k \in DOMAIN a |->
        CHOOSE v \in Values(a) :
            /\ Cardinality({i \in DOMAIN a : a[i] < v}) <= k
            /\ k < Cardinality({i \in DOMAIN a : a[i] <= v})]
\* tf.where(m) of a rows x cols boolean matrix: the coordinates of its true
\* entries in row-major order.
TfWhere(m, rows, cols) ==
    RaggedValues([r \in 0 .. (rows - 1) |->
                     BooleanMask([c \in 0 .. (cols - 1) |-> <<r, c>>], m[r])], rows)
\* tf.sequence_mask(lengths), maxlen columns
SequenceMask(lengths, maxlen) ==
    [i \in DOMAIN lengths |-> [t \in 0 .. (maxlen - 1) |-> t < lengths[i]]]
\* tf.scatter_nd(indices, updates, (batch_dim, dialogue_dim, units)): the rows
\* written to one position are added up.
ScatterNd(indices, updates, batch_dim, dialogue_dim) ==
    [i \in 0 .. (batch_dim - 1) |->
        [t \in 0 .. (dialogue_dim - 1) |->
            UNION {updates[k] : k \in {j \in DOMAIN indices : indices[j] = <<i, t>>}}]]

\* TED.calculate_key_ids: tf.boolean_mask of all label ids by the key's mask.
CalculateKeyIds_AllLabels(label_data, key) ==
    label_data.label_ids

CalculateKeyIds(label_data, key) ==
    SortedArray({label_data.label_ids[i] :
                    i \in {j \in DOMAIN label_data.label_ids : label_data.mask[key][j]}})

\* tf.random.uniform_candidate_sampler(..., num_sampled, unique, range_max): every
\* array of num_sampled values of 0..range_max-1 (distinct ones when unique) is a
\* possible draw; no unique draw exists when num_sampled exceeds range_max.
UniformCandidateSampler(num_sampled, unique, range_max) ==
    {f \in [0 .. (num_sampled - 1) -> 0 .. (range_max - 1)] :
        unique => \A i \in DOMAIN f, j \in DOMAIN f : i # j => f[i] # f[j]}

\* TED._sample_unique_label_ids: the possible results.
SampleUniqueLabelIds_WithReplacement(all_label_ids, num_samples, total_num_label_ids) ==
    {[j \in DOMAIN indices |-> all_label_ids[indices[j]]] :
        indices \in UniformCandidateSampler(num_samples, FALSE, total_num_label_ids)}

SampleUniqueLabelIds(all_label_ids, num_samples, total_num_label_ids) ==
    {[j \in DOMAIN indices |-> all_label_ids[indices[j]]] :
        indices \in UniformCandidateSampler(num_samples, TRUE, total_num_label_ids)}

\* The draws of one key in _sample_negative_label_ids.
KeyDraws(label_data, metadata, key) ==
    SampleUniqueLabelIds(CalculateKeyIds(label_data, key),
                         metadata[key].label_batch_size,
                         metadata[key].num_label_candidates)

NothingSampled(label_data, raised) ==
    [raised |-> raised, sampled |-> [key \in KeysOf(label_data) |-> <<>>],
     negative_label_ids |-> <<>>]

\* The draws of every key, then tf.concat in the order of the label keys.
SampleEveryKey(label_data, metadata) ==
    LET draws(key) == IF key \in KeysOf(label_data)
                      THEN KeyDraws(label_data, metadata, key) ELSE {<<>>}
    IN IF \E key \in KeysOf(label_data) : draws(key) = {}
       THEN {NothingSampled(label_data, "sampler aborted")}
       ELSE {[raised |-> "none",
              sampled |-> [key \in KeysOf(label_data) |->
                             IF key = LABEL_ACTION_NAME THEN p[1] ELSE p[2]],
              negative_label_ids |-> Concat(p[1], p[2])] :
                p \in draws(LABEL_ACTION_NAME) \X draws(LABEL_ACTION_TEXT)}

\* TED._sample_negative_label_ids: the possible results.
SampleNegativeLabelIds_Unchecked(batch_size, label_data, metadata) ==
    SampleEveryKey(label_data, metadata)

SampleNegativeLabelIds(batch_size, label_data, metadata) ==
    IF batch_size > NumLabelIds(label_data)
    THEN {NothingSampled(label_data, "TFLayerConfigException")}
    ELSE SampleEveryKey(label_data, metadata)

\* _create_label_embeddings_for_training: the sorted unique ids of negatives
\* and positives.
AllUniqueLabelIds_Unsorted(negative_label_ids, positive_ids) ==
    TfUnique(Concat(negative_label_ids, positive_ids))

AllUniqueLabelIds(negative_label_ids, positive_ids) ==
    TfSort(TfUnique(Concat(negative_label_ids, positive_ids)))

\* TED._compute_dialogue_indices: tf.range of every dialogue length, flattened.
ComputeDialogueIndices(dialogue_lengths) ==
    RaggedValues([i \in DOMAIN dialogue_lengths |-> Range(dialogue_lengths[i])],
                 Shape0(dialogue_lengths))

\* The attributes whose dialogue dimension is the batch's (the label keys have
\* a fake dialogue dimension of 1).
STATE_LEVEL_FEATURES == {ENTITIES, SLOTS, "active_loop"}
SENTENCE_FEATURES_TO_ENCODE == {INTENT, TEXT, ACTION_NAME, ACTION_TEXT}
SEQUENCE_FEATURES_TO_ENCODE == {TEXT, ACTION_TEXT, LABEL_ACTION_TEXT}

\* TED._convert_to_original_shape: the flattened rows of the real instances
\* are scattered to (batch, dialogue length, units).
ConvertToOriginalShape_ByTurnOnly(attribute_features, batch_data, attribute) ==
    LET attribute_mask == batch_data.mask[attribute]
        batch_dim == Shape0(attribute_mask)
        dialogue_dim == Shape0(attribute_mask[0])
        dialogue_lengths ==
            IF attribute \in SENTENCE_FEATURES_TO_ENCODE \cup STATE_LEVEL_FEATURES
            THEN batch_data.dialogue_lengths
            ELSE [i \in DOMAIN attribute_mask |-> 1]
        dialogue_indices ==
            IF attribute \in SENTENCE_FEATURES_TO_ENCODE \cup STATE_LEVEL_FEATURES
            THEN batch_data.dialogue_indices
            ELSE [i \in DOMAIN attribute_mask |-> 0]
        sequence_mask == SequenceMask(dialogue_lengths, dialogue_dim)
        dialogue_indices_mask ==
            RaggedValues([i \in DOMAIN attribute_mask |->
                             BooleanMask(attribute_mask[i], sequence_mask[i])], batch_dim)
        real_dialogue_indices == BooleanMask(dialogue_indices, dialogue_indices_mask)
        indices == [k \in DOMAIN real_dialogue_indices |-> <<0, real_dialogue_indices[k]>>]
    IN ScatterNd(indices, attribute_features, batch_dim, dialogue_dim)

ConvertToOriginalShape(attribute_features, batch_data, attribute) ==
    LET attribute_mask == batch_data.mask[attribute]
        batch_dim == Shape0(attribute_mask)
        dialogue_dim == Shape0(attribute_mask[0])
        dialogue_lengths ==
            IF attribute \in SENTENCE_FEATURES_TO_ENCODE \cup STATE_LEVEL_FEATURES
            THEN batch_data.dialogue_lengths
            ELSE [i \in DOMAIN attribute_mask |-> 1]
        dialogue_indices ==
            IF attribute \in SENTENCE_FEATURES_TO_ENCODE \cup STATE_LEVEL_FEATURES
            THEN batch_data.dialogue_indices
            ELSE [i \in DOMAIN attribute_mask |-> 0]
        non_fake_dialogue_lengths ==
            [i \in DOMAIN attribute_mask |->
                Cardinality({t \in DOMAIN attribute_mask[i] : attribute_mask[i][t]})]
        batch_indices == Repeat(Range(batch_dim), non_fake_dialogue_lengths)
        sequence_mask == SequenceMask(dialogue_lengths, dialogue_dim)
        dialogue_indices_mask ==
            RaggedValues([i \in DOMAIN attribute_mask |->
                             BooleanMask(attribute_mask[i], sequence_mask[i])], batch_dim)
        real_dialogue_indices == BooleanMask(dialogue_indices, dialogue_indices_mask)
        indices == [k \in DOMAIN batch_indices |->
                       <<batch_indices[k], real_dialogue_indices[k]>>]
    IN ScatterNd(indices, attribute_features, batch_dim, dialogue_dim)

\* A layer that maps every feature row on its own (sequence layer and last
\* token, sparse+dense concatenation, encoding layer, embedding layer).
LayerOutput(layer, rows) ==
    [k \in DOMAIN rows |-> {[layer |-> layer, of |-> x] : x \in rows[k]}]

\* The feature rows the label data holds for a key: one per label that has
\* the key, in the order of the label ids.
LabelFeatures(label_data, key) ==
    LET key_ids == CalculateKeyIds(label_data, key)
    IN [j \in DOMAIN key_ids |-> {[key |-> key, label_id |-> key_ids[j]]}]

\* TED._filter_label_data: the features of the selected labels, the masks
\* gathered at the selected ids.
FilterLabelData(label_data, selection_label_ids) ==
    [mask |-> [key \in KeysOf(label_data) |->
                 Gather([i \in DOMAIN label_data.mask[key] |->
                            [t \in 0 .. 0 |-> label_data.mask[key][i]]],
                        selection_label_ids)],
     \* SEQUENCE_LENGTH of the text key: one token per label with text
     sequence_lengths |-> [key \in KeysOf(label_data) \cap SEQUENCE_FEATURES_TO_ENCODE |->
                 Gather([i \in DOMAIN label_data.mask[key] |->
                            IF label_data.mask[key][i] THEN 1 ELSE 0],
                        selection_label_ids)],
     sentence |-> [key \in KeysOf(label_data) |->
                     LET key_label_ids == CalculateKeyIds(label_data, key)
                         key_selection_mask ==
                             [j \in DOMAIN key_label_ids |->
                                 \E k \in DOMAIN selection_label_ids :
                                     key_label_ids[j] = selection_label_ids[k]]
                         key_selection_ids ==
                             BooleanMask(Range(Shape0(key_label_ids)), key_selection_mask)
                     IN Gather(LabelFeatures(label_data, key), key_selection_ids)]]

\* Output widths: config[ENCODING_DIMENSION] and a layer's output_units.
EncodingDimension == [layer |-> "config", attribute |-> "encoding_dimension"]
OutputUnits(layer, attribute) == [layer |-> layer, attribute |-> attribute]
NoUnits == [layer |-> "none", attribute |-> "none"]
\* A tensor: its leading dimensions, its unit width (NoUnits when the tensor
\* has no feature axis), its element type and its values.
Tensor(dims, units, dtype, values) ==
    [dims |-> dims, units |-> units, dtype |-> dtype, values |-> values]
Rank(tensor) == Len(tensor.dims) + (IF tensor.units = NoUnits THEN 0 ELSE 1)
\* tf.zeros((0,)): the empty tensor that stands for None.
EmptyZeros == Tensor(<<0>>, NoUnits, "float32", <<>>)

\* TED._create_last_dialogue_turns_mask, the mask over all flattened turns: a
\* 0 is appended to the dialogue indices, the first entry is dropped, and the
\* mask is true where the entry that follows is 0.
LastDialogueTurnMask_FirstTurns(dialogue_indices) ==
    [k \in DOMAIN dialogue_indices |-> ~(dialogue_indices[k] # 0)]

LastDialogueTurnMask(dialogue_indices) ==
    LET n == Shape0(dialogue_indices)
        shifted == [k \in 0 .. (n - 1) |->
                       IF k + 1 < n THEN dialogue_indices[k + 1] ELSE 0]
    IN [k \in 0 .. (n - 1) |-> ~(shifted[k] # 0)]

\* TED._create_last_dialogue_turns_mask: the flattened turns that are the last
\* of their dialogue, picked at the turns with real input.
CreateLastDialogueTurnsMask(batch_data, attribute) ==
    BooleanMask(LastDialogueTurnMask(batch_data.dialogue_indices),
                [k \in DOMAIN batch_data.sequence_lengths[attribute] |->
                    batch_data.sequence_lengths[attribute][k] # 0])

\* TED._encode_fake_features_per_attribute: zero tensors for an attribute
\* without real features in the batch.
EncodeFakeFeaturesPerAttribute_TextAsOthers(batch_data, attribute) ==
    LET attribute_mask == batch_data.mask[attribute]
        batch_dim == Shape0(attribute_mask)
        dialogue_dim == Shape0(attribute_mask[0])
        units == IF attribute \in SENTENCE_FEATURES_TO_ENCODE \cup LabelKeys
                 THEN EncodingDimension
                 ELSE OutputUnits("sparse_dense_concat_layer", attribute)
    IN [branch |-> "fake",
        attribute_features |->
            Tensor(<<batch_dim, dialogue_dim>>, units, "float32",
                   [i \in 0 .. (batch_dim - 1) |->
                       [t \in 0 .. (dialogue_dim - 1) |-> ZeroVector]]),
        text_output |-> EmptyZeros,
        text_sequence_lengths |-> EmptyZeros]

EncodeFakeFeaturesPerAttribute_Flat(batch_data, attribute) ==
    LET units == IF attribute \in SENTENCE_FEATURES_TO_ENCODE \cup LabelKeys
                 THEN EncodingDimension
                 ELSE OutputUnits("sparse_dense_concat_layer", attribute)
    IN [branch |-> "fake",
        attribute_features |-> Tensor(<<0, 0>>, units, "float32", <<>>),
        text_output |->
            IF attribute = TEXT
            THEN Tensor(<<0, 0>>, OutputUnits("sequence_layer", attribute), "float32", <<>>)
            ELSE EmptyZeros,
        text_sequence_lengths |->
            IF attribute = TEXT THEN Tensor(<<0>>, NoUnits, "int32", <<>>) ELSE EmptyZeros]

EncodeFakeFeaturesPerAttribute(batch_data, attribute) ==
    LET attribute_mask == batch_data.mask[attribute]
        batch_dim == Shape0(attribute_mask)
        dialogue_dim == Shape0(attribute_mask[0])
        units == IF attribute \in SENTENCE_FEATURES_TO_ENCODE \cup LabelKeys
                 THEN EncodingDimension
                 ELSE OutputUnits("sparse_dense_concat_layer", attribute)
    IN [branch |-> "fake",
        attribute_features |->
            Tensor(<<batch_dim, dialogue_dim>>, units, "float32",
                   [i \in 0 .. (batch_dim - 1) |->
                       [t \in 0 .. (dialogue_dim - 1) |-> ZeroVector]]),
        text_output |->
            IF attribute = TEXT
            THEN Tensor(<<0, 0>>, OutputUnits("sequence_layer", attribute), "float32", <<>>)
            ELSE EmptyZeros,
        text_sequence_lengths |->
            IF attribute = TEXT THEN Tensor(<<0>>, NoUnits, "int32", <<>>) ELSE EmptyZeros]

\* TED._encode_real_features_per_attribute: the sequence layer and its last
\* token, or the sparse+dense concatenation; the encoding layer; the shape
\* restored.  For TEXT the token-level output and its lengths are returned
\* too, cut to the last dialogue turns with the max-history featurizer.
EncodeRealFeaturesPerAttribute(batch_data, attribute, max_history) ==
    LET is_sequence == attribute \in SEQUENCE_FEATURES_TO_ENCODE
        lengths == batch_data.sequence_lengths[attribute]
        sequence_feature_lengths ==
            BooleanMask(lengths, [k \in DOMAIN lengths |-> lengths[k] # 0])
        combined_sentence_sequence_feature_lengths ==
            [k \in DOMAIN sequence_feature_lengths |-> sequence_feature_lengths[k] + 1]
        input_layer == IF is_sequence THEN "sequence_layer"
                       ELSE "sparse_dense_concat_layer"
        layer_output == LayerOutput(input_layer, batch_data.sentence[attribute])
        max_sequence_length ==
            IF Shape0(sequence_feature_lengths) = 0 THEN 1
            ELSE NpMax(combined_sentence_sequence_feature_lengths)
        last_dialogue_turns_mask == CreateLastDialogueTurnsMask(batch_data, attribute)
        text_rows == IF max_history
                     THEN BooleanMask(layer_output, last_dialogue_turns_mask)
                     ELSE layer_output
        text_lengths ==
            IF max_history
            THEN BooleanMask(combined_sentence_sequence_feature_lengths,
                             last_dialogue_turns_mask)
            ELSE combined_sentence_sequence_feature_lengths
        encoded == attribute \in SENTENCE_FEATURES_TO_ENCODE \cup LabelKeys
        rows == IF encoded THEN LayerOutput("encoding_layer", layer_output)
                ELSE layer_output
        units == IF encoded THEN EncodingDimension
                 ELSE OutputUnits(input_layer, attribute)
        attribute_mask == batch_data.mask[attribute]
    IN [branch |-> "real",
        attribute_features |->
            Tensor(<<Shape0(attribute_mask), Shape0(attribute_mask[0])>>, units,
                   "float32", ConvertToOriginalShape(rows, batch_data, attribute)),
        text_output |->
            IF is_sequence /\ attribute = TEXT
            THEN Tensor(<<Shape0(text_rows), max_sequence_length>>,
                        OutputUnits("sequence_layer", attribute), "float32", text_rows)
            ELSE EmptyZeros,
        text_sequence_lengths |->
            IF is_sequence /\ attribute = TEXT
            THEN Tensor(<<Shape0(text_lengths)>>, NoUnits, "int32", text_lengths)
            ELSE EmptyZeros]

\* TED._encode_features_per_attribute: tf.cond on the number of real rows.
EncodeFeaturesPerAttribute(batch_data, attribute, max_history) ==
    IF Shape0(batch_data.sentence[attribute]) > 0
    THEN EncodeRealFeaturesPerAttribute(batch_data, attribute, max_history)
    ELSE EncodeFakeFeaturesPerAttribute(batch_data, attribute)

\* TED._compute_embedding_for_label_ids: one embedding per selected id, the
\* sum of the encoded features of its keys.
ComputeEmbeddingForLabelIds(label_data, label_ids) ==
    LET filtered_label_data == FilterLabelData(label_data, label_ids)
        labels_encoded ==
            {EncodeRealFeaturesPerAttribute(filtered_label_data, key,
                                            FALSE).attribute_features.values :
                key \in KeysOf(label_data)}
        \* the encoded keys added up, the sequence axis squeezed
        x == [j \in DOMAIN label_ids |->
                 UNION {attribute_features[j][0] : attribute_features \in labels_encoded}]
    IN LayerOutput("embed", x)

\* TED._get_labels_embed: the rows of all_labels_embed at the indices where
\* all_label_ids equals the selection ids.
GetLabelsEmbed_TableOrder(selection_ids, all_label_ids, all_labels_embed) ==
    LET equal == [u \in DOMAIN all_label_ids |->
                     [s \in DOMAIN selection_ids |->
                         all_label_ids[u] = selection_ids[s]]]
        where == TfWhere(equal, Shape0(all_label_ids), Shape0(selection_ids))
        indices == [k \in DOMAIN where |-> where[k][1]]
    IN Gather(all_labels_embed, indices)

GetLabelsEmbed(selection_ids, all_label_ids, all_labels_embed) ==
    LET equal == [u \in DOMAIN all_label_ids |->
                     [s \in DOMAIN selection_ids |->
                         all_label_ids[u] = selection_ids[s]]]
        transposed == [s \in DOMAIN selection_ids |->
                          [u \in DOMAIN all_label_ids |-> equal[u][s]]]
        where == TfWhere(transposed, Shape0(selection_ids), Shape0(all_label_ids))
        indices == [k \in DOMAIN where |-> where[k][2]]
    IN Gather(all_labels_embed, indices)

\* The label ids of one batch, one per dialogue turn: a batch of two turns.
PositiveLabelIds(label_data) ==
    [0 .. 1 -> Values(label_data.label_ids)]

\* The embeddings batch_loss computes and gathers once the negatives are drawn.
LabelEmbeddings(label_data, negative_label_ids, positive_ids) ==
    LET all_unique_label_ids == AllUniqueLabelIds(negative_label_ids, positive_ids)
        all_labels_embed == ComputeEmbeddingForLabelIds(label_data, all_unique_label_ids)
    IN [all_unique_label_ids |-> all_unique_label_ids,
        all_labels_embed |-> all_labels_embed,
        positive_labels_embed |->
            GetLabelsEmbed(positive_ids, all_unique_label_ids, all_labels_embed),
        negative_labels_embed |->
            GetLabelsEmbed(negative_label_ids, all_unique_label_ids, all_labels_embed)]

\* TED.batch_loss, one training step: the negatives are sampled, then the
\* label ids to embed are collected.
BatchLoss ==
    /\ step.state = "idle"
    /\ tf_label_data # NoLabelData
    /\ \E positive_ids \in PositiveLabelIds(tf_label_data),
          drawn \in SampleNegativeLabelIds(label_batch_size, tf_label_data,
                                           label_sampling_metadata) :
        /\ positive_label_ids' = positive_ids
        /\ step' = IF drawn.raised = "none"
                    THEN LET e == LabelEmbeddings(tf_label_data,
                                                  drawn.negative_label_ids, positive_ids)
                         IN [state |-> "done", raised |-> "none",
                             sampled |-> drawn.sampled,
                             negative_label_ids |-> drawn.negative_label_ids,
                             all_unique_label_ids |-> e.all_unique_label_ids,
                             all_labels_embed |-> e.all_labels_embed,
                             positive_labels_embed |-> e.positive_labels_embed,
                             negative_labels_embed |-> e.negative_labels_embed]
                    ELSE [NoStep EXCEPT !.state = "done", !.raised = drawn.raised,
                                        !.sampled = drawn.sampled]
    /\ UNCHANGED <<tf_label_data, label_batch_size, label_sampling_metadata,
                   policyVars, callVars, entityVars, buildVars, batchVars>>

\* The fit loop goes on to the next batch; an exception ends the training.
NextBatch ==
    /\ step.state = "done"
    /\ step.raised = "none"
    /\ step' = NoStep
    /\ positive_label_ids' = <<>>
    /\ UNCHANGED <<tf_label_data, label_batch_size, label_sampling_metadata,
                   policyVars, callVars, entityVars, buildVars, batchVars>>

\* train() / load(): the label data, the metadata derived from it, the model.
TrainInit ==
    /\ EntityIdle
    /\ PolicyIdle
    /\ CallIdle
    /\ BuildIdle
    /\ tf_label_data \in LabelSpaces
    /\ label_batch_size \in LabelBatchSizes
    /\ label_sampling_metadata =
           GetLabelSamplingMetadata(tf_label_data, label_batch_size)
    /\ positive_label_ids = <<>>
    /\ step = NoStep
    /\ BatchIdle

TrainNext ==
    \/ BatchLoss
    \/ NextBatch

SpecTrain == TrainInit /\ [][TrainNext]_vars

(***************************************************************************)
(* get_label_sampling_metadata applied to label data and budgets           *)
(***************************************************************************)
\* 100 actions with action-name features and 20 with action-text features.
ScenarioLabelData ==
    LabelData(120, [i \in 0 .. 119 |->
                      IF i < 100 THEN {LABEL_ACTION_NAME} ELSE {LABEL_ACTION_TEXT}])
ScenarioBudgets == {20}

MetaInit ==
    /\ EntityIdle
    /\ PolicyIdle
    /\ CallIdle
    /\ BuildIdle
    /\ tf_label_data \in LabelSpaces \cup {ScenarioLabelData}
    /\ label_batch_size \in LabelBatchSizes \cup ScenarioBudgets
    /\ label_sampling_metadata = NoMetadata
    /\ positive_label_ids = <<>>
    /\ step = NoStep
    /\ BatchIdle

GetLabelSamplingMetadataCall ==
    /\ label_sampling_metadata = NoMetadata
    /\ label_sampling_metadata' =
           GetLabelSamplingMetadata(tf_label_data, label_batch_size)
    /\ UNCHANGED <<tf_label_data, label_batch_size, positive_label_ids, step,
                   policyVars, callVars, entityVars, buildVars, batchVars>>

MetaNext == GetLabelSamplingMetadataCall

SpecMeta == MetaInit /\ [][MetaNext]_vars

(***************************************************************************)
(* One batch through the dialogue side of the model: the attribute         *)
(* encoders, the dialogue encoder, the entity tagger; the cached label     *)
(* embeddings of prediction                                                *)
(***************************************************************************)
\* The largest number of dialogue turns in a batch, all dialogues together.
MaxBatchTurns == 3

\* The attributes of a batch: user intent or text, the previous action's name,
\* the slots (a state-level attribute).
BatchAttributes == {INTENT, TEXT, ACTION_NAME, SLOTS}
\* What a dialogue turn holds: intent or text or no user input, slots or not;
\* every turn has a previous action.
TurnKinds == [user : {"none", INTENT, TEXT}, slots : BOOLEAN]
HasAttribute(kind, attribute) ==
    \/ attribute = ACTION_NAME
    \/ attribute = SLOTS /\ kind.slots
    \/ attribute \in {INTENT, TEXT} /\ kind.user = attribute

RECURSIVE ReduceSum(_, _)
ReduceSum(a, n) == IF n = 0 THEN 0 ELSE ReduceSum(a, n - 1) + a[n - 1]
DialogueLengthVectors ==
    {l \in UNION {[0 .. (b - 1) -> 1 .. MaxBatchTurns] : b \in 1 .. MaxBatchTurns} :
        ReduceSum(l, Shape0(l)) <= MaxBatchTurns}
TurnsOf(dialogue_lengths) ==
    {p \in (DOMAIN dialogue_lengths) \X (0 .. (MaxBatchTurns - 1)) :
        p[2] < dialogue_lengths[p[1]]}

\* The batch in model data format, as the batch generator leaves it: masks of
\* shape (batch, longest dialogue), false on padded turns; per attribute the
\* feature rows of the real instances only, dialogue after dialogue; the
\* sequence lengths of every turn, 0 where there is no text (a text at turn t
\* has t + 1 tokens).  The dialogue indices are added by the model.
BatchData(dialogue_lengths, turns) ==
    LET batch_dim == Shape0(dialogue_lengths)
        dialogue_dim == NpMax(dialogue_lengths)
        mask == [a \in BatchAttributes |->
                    [i \in 0 .. (batch_dim - 1) |->
                        [t \in 0 .. (dialogue_dim - 1) |->
                            /\ t < dialogue_lengths[i]
                            /\ HasAttribute(turns[<<i, t>>], a)]]]
    IN [dialogue_lengths |-> dialogue_lengths,
        dialogue_indices |-> <<>>,
        mask |-> mask,
        sentence |->
            [a \in BatchAttributes |->
                RaggedValues(
                    [i \in 0 .. (batch_dim - 1) |->
                        BooleanMask([t \in 0 .. (dialogue_dim - 1) |->
                                        {[attribute |-> a, example |-> i, turn |-> t]}],
                                    mask[a][i])], batch_dim)],
        sequence_lengths |->
            [a \in {TEXT} |->
                RaggedValues(
                    [i \in 0 .. (batch_dim - 1) |->
                        [t \in 0 .. (dialogue_lengths[i] - 1) |->
                            IF turns[<<i, t>>].user = TEXT THEN t + 1 ELSE 0]],
                    batch_dim)]]
Batches ==
    UNION {{BatchData(l, turns) : turns \in [TurnsOf(l) -> TurnKinds]} :
              l \in DialogueLengthVectors}

\* rasa_layers.compute_mask: 1 on the turns of a dialogue, 0 on its padding.
ComputeMask(dialogue_lengths) ==
    SequenceMask(dialogue_lengths, NpMax(dialogue_lengths))
\* RasaModel._last_token: the entry at position length - 1 of every example.
LastToken(x, lengths) == [i \in DOMAIN x |-> x[i][lengths[i] - 1]]
\* tf.expand_dims(x, 1) of one entry per example
ExpandDims(x) == [i \in DOMAIN x |-> [t \in 0 .. 0 |-> x[i]]]
\* tf.reverse_sequence: the first length entries of every example reversed.
ReverseSequence_Whole(x, lengths) ==
    [i \in DOMAIN x |-> [t \in DOMAIN x[i] |-> x[i][Shape0(x[i]) - 1 - t]]]

ReverseSequence(x, lengths) ==
    [i \in DOMAIN x |->
        [t \in DOMAIN x[i] |->
            IF t < lengths[i] THEN x[i][lengths[i] - 1 - t] ELSE x[i][t]]]

\* TED._embed_dialogue: the mask of the dialogue lengths; the dialogue is
\* reversed with the max-history featurizer; with it, and in prediction, only
\* one position of the output and of the mask is kept.  A position of the
\* transformer output is named by the turn whose input stood there.
EmbedDialogue_FullMask(batch_data, max_history, training) ==
    LET dialogue_lengths == batch_data.dialogue_lengths
        mask == ComputeMask(dialogue_lengths)
        turns == [i \in DOMAIN mask |-> [t \in DOMAIN mask[i] |-> t]]
        dialogue_in == IF max_history THEN ReverseSequence(turns, dialogue_lengths)
                       ELSE turns
    IN [dialogue_in |-> dialogue_in,
        padding_mask |-> [i \in DOMAIN mask |-> [t \in DOMAIN mask[i] |-> ~mask[i][t]]],
        dialogue_transformed |->
            IF max_history
            THEN [i \in DOMAIN dialogue_in |-> [t \in 0 .. 0 |-> dialogue_in[i][t]]]
            ELSE IF ~training
            THEN ExpandDims(LastToken(dialogue_in, dialogue_lengths))
            ELSE dialogue_in,
        mask |-> mask]

EmbedDialogue_KeepAll(batch_data, max_history, training) ==
    LET dialogue_lengths == batch_data.dialogue_lengths
        mask == ComputeMask(dialogue_lengths)
        turns == [i \in DOMAIN mask |-> [t \in DOMAIN mask[i] |-> t]]
        dialogue_in == IF max_history THEN ReverseSequence(turns, dialogue_lengths)
                       ELSE turns
    IN [dialogue_in |-> dialogue_in,
        padding_mask |-> [i \in DOMAIN mask |-> [t \in DOMAIN mask[i] |-> ~mask[i][t]]],
        dialogue_transformed |->
            IF max_history
            THEN [i \in DOMAIN dialogue_in |-> [t \in 0 .. 0 |-> dialogue_in[i][t]]]
            ELSE dialogue_in,
        mask |->
            IF max_history
            THEN ExpandDims(LastToken(mask, dialogue_lengths))
            ELSE mask]

EmbedDialogue(batch_data, max_history, training) ==
    LET dialogue_lengths == batch_data.dialogue_lengths
        mask == ComputeMask(dialogue_lengths)
        turns == [i \in DOMAIN mask |-> [t \in DOMAIN mask[i] |-> t]]
        dialogue_in == IF max_history THEN ReverseSequence(turns, dialogue_lengths)
                       ELSE turns
    IN [dialogue_in |-> dialogue_in,
        padding_mask |-> [i \in DOMAIN mask |-> [t \in DOMAIN mask[i] |-> ~mask[i][t]]],
        dialogue_transformed |->
            IF max_history
            THEN [i \in DOMAIN dialogue_in |-> [t \in 0 .. 0 |-> dialogue_in[i][t]]]
            ELSE IF ~training
            THEN ExpandDims(LastToken(dialogue_in, dialogue_lengths))
            ELSE dialogue_in,
        mask |->
            IF max_history \/ ~training
            THEN ExpandDims(LastToken(mask, dialogue_lengths))
            ELSE mask]

\* tf.shape(text_output)[0] > 0: the condition of both tf.cond of the tagger.
HasRows_Always(text_output) == TRUE

HasRows(text_output) == text_output.dims[1] > 0

\* The tagger's context was not built (no entity recognition, or no text row).
NotReshaped ==
    [called |-> FALSE, raised |-> "none", dialogue_transformer_output |-> <<>>,
     text_transformed |-> <<>>]

\* tf.boolean_mask(tensor, mask) with a mask over the two leading axes: tensor
\* and mask are flattened and the rows at the true entries of the mask are
\* gathered.  When the mask's shape is not that of the leading axes, the call
\* is rejected where the shapes are known when it is built; otherwise the
\* gather reads at the mask's indices, and an index past the last row is an
\* InvalidArgumentError on a CPU and a row of zeros on a GPU.
BooleanMaskLeadingAxes(tensor, mask) ==
    LET flat == RaggedValues(tensor, Shape0(tensor))
        flat_mask == RaggedValues(mask, Shape0(mask))
        indices == SortedArray({k \in DOMAIN flat_mask : flat_mask[k]})
        in_range == \A k \in DOMAIN indices : indices[k] < Shape0(flat)
        gathered == [k \in DOMAIN indices |->
                        IF indices[k] < Shape0(flat) THEN flat[indices[k]]
                        ELSE ZeroVector]
    IN IF Shape0(flat) = Shape0(flat_mask)
       THEN {[raised |-> "none", values |-> gathered]}
       ELSE {[raised |-> "ValueError", values |-> <<>>],
             IF in_range THEN [raised |-> "none", values |-> gathered]
             ELSE [raised |-> "InvalidArgumentError", values |-> <<>>],
             [raised |-> "none", values |-> gathered]}

\* TED._reshape_for_entities: the output of the dialogue transformer is masked
\* by the presence mask of TEXT (with the max-history featurizer, by its entry
\* at the last turn of every dialogue), and the k-th row that is left is
\* tiled over the tokens of the k-th row of the text output and concatenated
\* to it.  A row of the dialogue transformer's output is named by its example
\* and the turn whose input stood at its position.
ReshapeForEntities(batch_data, dialogue_transformer_output, text_output, max_history) ==
    LET outputs_of == [i \in DOMAIN dialogue_transformer_output |->
                         [t \in DOMAIN dialogue_transformer_output[i] |->
                             {[example |-> i,
                               turn |-> dialogue_transformer_output[i][t]]}]]
        attribute_mask ==
            IF max_history
            THEN ExpandDims(LastToken(batch_data.mask[TEXT], batch_data.dialogue_lengths))
            ELSE batch_data.mask[TEXT]
    IN {IF masked.raised # "none"
        THEN [NotReshaped EXCEPT !.called = TRUE, !.raised = masked.raised]
        ELSE IF Shape0(masked.values) # Shape0(text_output.values)
        THEN [NotReshaped EXCEPT !.called = TRUE, !.raised = "InvalidArgumentError"]
        ELSE [called |-> TRUE, raised |-> "none",
              dialogue_transformer_output |-> masked.values,
              text_transformed |->
                  [k \in DOMAIN text_output.values |->
                      [text |-> text_output.values[k],
                       context |-> masked.values[k]]]] :
        masked \in BooleanMaskLeadingAxes(outputs_of, attribute_mask)}

\* TED._real_batch_loss_entities / TED._real_batch_predict_entities begin with
\* _reshape_for_entities; they are entered with entity recognition on and a
\* text output that has rows.
RealBatchEntities(entity_recognition, batch_data, dialogue_transformer_output, text_output, max_history) ==
    IF entity_recognition /\ HasRows(text_output)
    THEN ReshapeForEntities(batch_data, dialogue_transformer_output, text_output,
                            max_history)
    ELSE {NotReshaped}

\* tf.shape(x)[:2]
ShapePrefix2(tensor) == SubSeq(tensor.dims, 1, Min(2, Len(tensor.dims)))

\* TED._batch_loss_entities: the entity loss, or the constant 0 when there is
\* no text output; only the real path updates the entity metrics.
BatchLossEntities(text_output) ==
    IF HasRows(text_output)
    THEN [path |-> "real", loss |-> "entity loss", metrics_updated |-> TRUE]
    ELSE [path |-> "skipped", loss |-> "0.0", metrics_updated |-> FALSE]

\* TED._batch_predict_entities: the tags and confidences of the CRF, one per
\* text row and token, or zeros of the shape of the text output.
BatchPredictEntities(text_output) ==
    IF HasRows(text_output)
    THEN [path |-> "real",
          pred_ids |-> [dims |-> text_output.dims, dtype |-> "int32",
                        all_zero |-> FALSE],
          confidences |-> [dims |-> text_output.dims, dtype |-> "float32",
                           all_zero |-> FALSE]]
    ELSE [path |-> "skipped",
          pred_ids |-> [dims |-> ShapePrefix2(text_output), dtype |-> "int32",
                        all_zero |-> TRUE],
          confidences |-> [dims |-> ShapePrefix2(text_output), dtype |-> "float32",
                           all_zero |-> TRUE]]
\* Entity recognition is off: the tagger is not called.
TaggerNotCalled == [path |-> "not called"]

\* TED._process_batch_data: every attribute of the batch encoded; the text
\* output and its lengths are those of TEXT.
ProcessBatchData(batch_data, max_history) ==
    LET batch_encoded == [a \in BatchAttributes |->
                             EncodeFeaturesPerAttribute(batch_data, a, max_history)]
    IN [batch_encoded |-> batch_encoded,
        text_output |-> batch_encoded[TEXT].text_output,
        text_sequence_lengths |-> batch_encoded[TEXT].text_sequence_lengths]

\* A constructed TED model (TED.__init__ on a valid data signature).
Constructed ==
    [state |-> "constructed", raised |-> "none", tf_label_data |-> TRUE,
     layers |-> TRUE, all_labels_embed |-> NoLabelsEmbed]

\* TED.batch_loss, the dialogue side of one training step: the dialogue
\* indices, the encoded batch, the dialogue embedding, the entity loss.
BatchLossForward ==
    /\ ted.state = "constructed"
    /\ tf_batch_data # NoBatch
    /\ LET data == [tf_batch_data EXCEPT
                        !.dialogue_indices =
                            ComputeDialogueIndices(tf_batch_data.dialogue_lengths)]
           processed == ProcessBatchData(data, max_history_featurizer_is_used)
           dialogue == EmbedDialogue(data, max_history_featurizer_is_used, TRUE)
       IN /\ tf_batch_data' = data
          /\ \E reshaped \in RealBatchEntities(config.entity_recognition, data,
                                               dialogue.dialogue_transformed,
                                               processed.text_output,
                                               max_history_featurizer_is_used) :
                forward' =
                    IF reshaped.raised # "none"
                    THEN [state |-> "done", handler |-> "batch_loss",
                          raised |-> reshaped.raised, reshaped |-> reshaped]
                    ELSE [state |-> "done", handler |-> "batch_loss", raised |-> "none",
                          batch_encoded |-> processed.batch_encoded,
                          dialogue |-> dialogue,
                          reshaped |-> reshaped,
                          entities |-> IF config.entity_recognition
                                       THEN BatchLossEntities(processed.text_output)
                                       ELSE TaggerNotCalled]
    /\ UNCHANGED <<max_history_featurizer_is_used, policyVars, callVars, entityVars, buildVars,
                   trainVars>>

\* TED.batch_predict: a ValueError without cached label embeddings; else the
\* dialogue indices, the encoded batch, the dialogue embedding, the scores
\* against every cached label embedding, the predicted entities.
BatchPredict ==
    /\ ted.state = "constructed"
    /\ tf_batch_data # NoBatch
    /\ IF ted.all_labels_embed.is_none
       THEN /\ forward' = [state |-> "done", handler |-> "batch_predict",
                           raised |-> "ValueError", reshaped |-> NotReshaped]
            /\ UNCHANGED tf_batch_data
       ELSE LET data == [tf_batch_data EXCEPT
                            !.dialogue_indices =
                                ComputeDialogueIndices(tf_batch_data.dialogue_lengths)]
                processed == ProcessBatchData(data, max_history_featurizer_is_used)
                dialogue == EmbedDialogue(data, max_history_featurizer_is_used, FALSE)
            IN /\ tf_batch_data' = data
               /\ \E reshaped \in RealBatchEntities(config.entity_recognition, data,
                                                    dialogue.dialogue_transformed,
                                                    processed.text_output,
                                                    max_history_featurizer_is_used) :
                     forward' =
                         IF reshaped.raised # "none"
                         THEN [state |-> "done", handler |-> "batch_predict",
                               raised |-> reshaped.raised, reshaped |-> reshaped]
                         ELSE [state |-> "done", handler |-> "batch_predict",
                               raised |-> "none",
                               batch_encoded |-> processed.batch_encoded,
                               dialogue |-> dialogue,
                               reshaped |-> reshaped,
                               action_scores |->
                                   [dims |-> <<Shape0(dialogue.dialogue_transformed),
                                               Shape0(dialogue.dialogue_transformed[0]),
                                               Shape0(ted.all_labels_embed.rows)>>],
                               entities |->
                                   IF config.entity_recognition
                                   THEN BatchPredictEntities(processed.text_output)
                                   ELSE TaggerNotCalled]
    /\ UNCHANGED <<max_history_featurizer_is_used, policyVars, callVars, entityVars,
                   data_signature, ted, trainVars>>

\* A fixed label space for the batches: two actions with action-name features.
TwoNamedActions == LabelData(2, [i \in 0 .. 1 |-> {LABEL_ACTION_NAME}])

\* A model prepared for prediction and a batch: batch_loss and batch_predict
\* applied to every batch.
BatchInit ==
    /\ EntityIdle
    /\ PolicyIdle
    /\ CallIdle
    /\ data_signature = SignatureKeys
    /\ tf_label_data = TwoNamedActions
    /\ label_batch_size = UNSET_LABEL_BATCH_SIZE
    /\ label_sampling_metadata =
           GetLabelSamplingMetadata(tf_label_data, label_batch_size)
    /\ ted = [Constructed EXCEPT
                 !.all_labels_embed =
                     [is_none |-> FALSE,
                      rows |-> ComputeEmbeddingForLabelIds(tf_label_data,
                                                           tf_label_data.label_ids)]]
    /\ positive_label_ids = <<>>
    /\ step = NoStep
    /\ tf_batch_data \in Batches
    /\ max_history_featurizer_is_used \in BOOLEAN
    /\ forward = NoForward

BatchNext ==
    \/ BatchLossForward
    \/ BatchPredict

SpecBatch == BatchInit /\ [][BatchNext]_vars

\* a[start : stop] of Python for 0 <= start: the entries at start and after,
\* before stop and before the end of a.
Slice(a, start, stop) ==
    [k \in 0 .. (Min(stop, Shape0(a)) - start - 1) |-> a[start + k]]

\* The while loop of TED.prepare_for_predict for a label batch size of at
\* least 1: the slices of the label ids taken at index 0, size, 2 * size, ...
\* while index < len(all_label_ids).
RECURSIVE LabelIdBatchesFrom_FullOnly(_, _, _)
LabelIdBatchesFrom_FullOnly(all_label_ids, index, size) ==
    IF index + size <= Shape0(all_label_ids)
    THEN <<Slice(all_label_ids, index, index + size)>>
             \o LabelIdBatchesFrom_FullOnly(all_label_ids, index + size, size)
    ELSE <<>>
LabelIdBatches_FullOnly(all_label_ids, size) ==
    LabelIdBatchesFrom_FullOnly(all_label_ids, 0, size)

RECURSIVE LabelIdBatchesFrom(_, _, _)
LabelIdBatchesFrom(all_label_ids, index, size) ==
    IF index < Shape0(all_label_ids)
    THEN <<Slice(all_label_ids, index, index + size)>>
             \o LabelIdBatchesFrom(all_label_ids, index + size, size)
    ELSE <<>>
LabelIdBatches(all_label_ids, size) == LabelIdBatchesFrom(all_label_ids, 0, size)

\* tf.concat(all_label_embeds, axis=0)
RECURSIVE ConcatAll(_)
ConcatAll(tensors) ==
    IF tensors = <<>> THEN <<>>
    ELSE Concat(ConcatAll(SubSeq(tensors, 1, Len(tensors) - 1)), tensors[Len(tensors)])

\* TED.prepare_for_predict: the embeddings of all label ids, computed at once
\* when the label batch size is -1 and batch after batch otherwise, assigned
\* to all_labels_embed when all are computed.  With a label batch size of 0
\* or below -1 the index never reaches len(all_label_ids) (there is at least
\* one label id): the loop does not end and nothing is assigned.
PrepareForPredict ==
    /\ ted.state = "constructed"
    /\ LET all_label_ids == tf_label_data.label_ids
       IN IF label_batch_size = -1
          THEN /\ ted' = [ted EXCEPT
                            !.all_labels_embed =
                                [is_none |-> FALSE,
                                 rows |-> ComputeEmbeddingForLabelIds(tf_label_data,
                                                                      all_label_ids)]]
               /\ forward' = [state |-> "done", handler |-> "prepare_for_predict",
                              raised |-> "none", batches |-> <<all_label_ids>>,
                              embedding_calls |-> 1]
          ELSE IF label_batch_size >= 1
          THEN LET batches == LabelIdBatches(all_label_ids, label_batch_size)
                   all_label_embeds ==
                       [b \in DOMAIN batches |->
                           ComputeEmbeddingForLabelIds(tf_label_data, batches[b])]
               IN /\ ted' = [ted EXCEPT
                               !.all_labels_embed =
                                   [is_none |-> FALSE,
                                    rows |-> ConcatAll(all_label_embeds)]]
                  /\ forward' = [state |-> "done", handler |-> "prepare_for_predict",
                                 raised |-> "none", batches |-> batches,
                                 embedding_calls |-> Len(batches)]
          ELSE /\ ted' = [ted EXCEPT !.state = "preparing"]
               /\ forward' = [state |-> "running", handler |-> "prepare_for_predict",
                              raised |-> "none", index |-> label_batch_size,
                              embedding_calls |-> 1]
    /\ UNCHANGED <<tf_batch_data, max_history_featurizer_is_used, policyVars,
                   callVars, entityVars, data_signature, trainVars>>

\* The embedding calls of a prepare_for_predict that are followed.
MaxLoopCalls == MaxLabels + 2

\* One more pass of the while loop of a prepare_for_predict whose label batch
\* size is 0 or below -1: index < len(all_label_ids) still holds, a slice is
\* embedded and appended, the label batch size is added to the index.
PrepareForPredictLoop ==
    /\ ted.state = "preparing"
    /\ forward.state = "running"
    /\ forward.index < Shape0(tf_label_data.label_ids)
    /\ forward.embedding_calls < MaxLoopCalls
    /\ forward' = [forward EXCEPT !.index = @ + label_batch_size,
                                  !.embedding_calls = @ + 1]
    /\ UNCHANGED <<tf_batch_data, max_history_featurizer_is_used, policyVars,
                   callVars, entityVars, buildVars, trainVars>>

\* The batches of one dialogue of one turn.
OneTurnBatches ==
    {b \in Batches : Shape0(b.dialogue_lengths) = 1 /\ b.dialogue_lengths[0] = 1}

\* A model constructed on a label space with a label batch size:
\* prepare_for_predict and batch_predict in any order.
PredictInit ==
    /\ EntityIdle
    /\ PolicyIdle
    /\ CallIdle
    /\ data_signature = SignatureKeys
    /\ tf_label_data \in LabelSpaces
    /\ label_batch_size \in LabelBatchSizes
    /\ label_sampling_metadata =
           GetLabelSamplingMetadata(tf_label_data, label_batch_size)
    /\ ted = Constructed
    /\ positive_label_ids = <<>>
    /\ step = NoStep
    /\ tf_batch_data \in OneTurnBatches
    /\ max_history_featurizer_is_used \in BOOLEAN
    /\ forward = NoForward

PredictNext ==
    \/ PrepareForPredict
    \/ PrepareForPredictLoop
    \/ BatchPredict

SpecPredict == PredictInit /\ [][PredictNext]_vars

\* The largest number of dialogues and of turns of one dialogue for which the
\* last-turn mask is built on its own.
MaxDialogues == 3
MaxDialogueLength == 3

\* Batches of which only the dialogue lengths and the sequence lengths of the
\* text matter: text at every turn, or at every second flattened turn.
LengthVectors ==
    UNION {[0 .. (b - 1) -> 1 .. MaxDialogueLength] : b \in 1 .. MaxDialogues}
LengthBatches ==
    {[NoBatch EXCEPT
         !.dialogue_lengths = l,
         !.sequence_lengths =
             [a \in {TEXT} |->
                 [k \in 0 .. (ReduceSum(l, Shape0(l)) - 1) |->
                     IF every \/ k % 2 = 0 THEN 1 ELSE 0]]] :
        l \in LengthVectors, every \in BOOLEAN}

\* TED._compute_dialogue_indices called on the batch.
ComputeDialogueIndicesStep ==
    /\ forward.state = "idle"
    /\ tf_batch_data # NoBatch
    /\ tf_batch_data.dialogue_indices = <<>>
    /\ tf_batch_data' =
          [tf_batch_data EXCEPT
              !.dialogue_indices = ComputeDialogueIndices(tf_batch_data.dialogue_lengths)]
    /\ UNCHANGED <<max_history_featurizer_is_used, forward, policyVars, callVars, entityVars,
                   buildVars, trainVars>>

\* TED._create_last_dialogue_turns_mask called for the text of the batch.
CreateLastDialogueTurnsMaskStep ==
    /\ forward.state = "idle"
    /\ tf_batch_data # NoBatch
    /\ tf_batch_data.dialogue_indices # <<>>
    /\ forward' =
          [state |-> "done", handler |-> "_create_last_dialogue_turns_mask",
           raised |-> "none",
           last_dialogue_turn_mask |->
               LastDialogueTurnMask(tf_batch_data.dialogue_indices),
           returned |-> CreateLastDialogueTurnsMask(tf_batch_data, TEXT)]
    /\ UNCHANGED <<tf_batch_data, max_history_featurizer_is_used, policyVars,
                   callVars, entityVars, buildVars, trainVars>>

TurnsInit ==
    /\ EntityIdle
    /\ PolicyIdle
    /\ CallIdle
    /\ BuildIdle
    /\ TrainIdle
    /\ tf_batch_data \in LengthBatches
    /\ max_history_featurizer_is_used = TRUE
    /\ forward = NoForward

TurnsNext ==
    \/ ComputeDialogueIndicesStep
    \/ CreateLastDialogueTurnsMaskStep

SpecTurns == TurnsInit /\ [][TurnsNext]_vars

(***************************************************************************)
(* Claims about the inference router                                       *)
(***************************************************************************)
\* The top value of row i of a matrix exceeds x / the top value of row j.
TopExceeds(m, i, x) == \E a \in DOMAIN m[i] : m[i][a] > x
TopExceedsTop(m, i, j) ==
    \E a \in DOMAIN m[i] : \A b \in DOMAIN m[j] : m[i][a] > m[j][b]
PreferEndToEnd ==
    /\ TopExceeds(outputs.action_scores, 1, config.e2e_confidence_threshold)
    /\ TopExceedsTop(outputs.similarities, 1, 0)

\* C1: given exactly two variants, _pick_confidence returns the end-to-end row
\* (row 1) with is_end_to_end = TRUE if and only if the top confidence of row 1
\* is greater than the threshold and the top similarity of row 1 is strictly
\* greater than the top similarity of row 0; in every other case it returns the
\* intent-based row (row 0) with is_end_to_end = FALSE.
C1_TwoVariantsChoice ==
    (pc = "picked" /\ Shape0(outputs.action_scores) = 2) =>
        /\ picked.raised = "none"
        /\ picked.is_e2e <=> PreferEndToEnd
        /\ PreferEndToEnd => picked.confidence = outputs.action_scores[1]
        /\ ~PreferEndToEnd => picked.confidence = outputs.action_scores[0]

\* Two variants, the end-to-end one is confident enough and more similar, and it
\* has been selected.
C1_Witness ==
    /\ pc = "picked"
    /\ Shape0(outputs.action_scores) = 2
    /\ PreferEndToEnd
    /\ picked.is_e2e
    /\ outputs.action_scores[1] # outputs.action_scores[0]

\* C2: for every batch of more than two variants _pick_confidence raises: it
\* returns no confidence vector and no end-to-end flag, and does not fall back
\* to the first rows of the batch.
C2_OversizeBatchRaises ==
    (pc = "picked" /\ Shape0(outputs.action_scores) > 2) =>
        /\ picked.raised = "ValueError"
        /\ picked.confidence = NoRow
        /\ \A i \in DOMAIN outputs.action_scores :
              picked.confidence # outputs.action_scores[i]

\* A batch of three variants was handed in and the call raised.
C2_Witness ==
    /\ pc = "picked"
    /\ Shape0(outputs.action_scores) = 3
    /\ picked.raised = "ValueError"

\* C3: with one variant, _pick_confidence returns that variant's confidence
\* vector unchanged (so the top action is the argmax of the single row) and
\* the end-to-end flag equals the policy's only_e2e flag.
C3_SingleVariantReported ==
    (pc = "picked" /\ Shape0(outputs.action_scores) = 1) =>
        /\ picked.raised = "none"
        /\ picked.confidence = outputs.action_scores[0]
        /\ \A a \in ActionIds :
              picked.confidence[a] <= outputs.action_scores[0][NpArgMax(picked.confidence)]
        /\ picked.is_e2e <=> only_e2e

\* One variant whose top action is index 1, on a policy that is not
\* end-to-end-only: reported as it is, not end-to-end.
C3_Witness ==
    /\ pc = "picked"
    /\ Shape0(outputs.action_scores) = 1
    /\ ~only_e2e
    /\ NpArgMax(picked.confidence) = 1
    /\ ~picked.is_e2e

\* C4: an entities event is attached to a prediction only if the end-to-end
\* (text) variant was selected and the tracker's latest action is
\* action_listen (and entity recognition is enabled and an entity tag was
\* predicted); with the intent-based variant selected, or after any other
\* action, no entity event is attached.
SelectedVariant ==
    IF Len(tracker_state_features) = 2 /\ picked.is_e2e
    THEN tracker_state_features[2]
    ELSE tracker_state_features[1]
C4_EntitiesOnlyForEndToEndAfterListen ==
    (pc = "predicted" /\ prediction.kind = "model") =>
        /\ prediction.optional_events = "EntitiesAdded" =>
              /\ prediction.is_end_to_end_prediction
              /\ SelectedVariant = TEXT
              /\ tracker = ACTION_LISTEN_NAME
              /\ config.entity_recognition
              /\ outputs.entity_tags
        /\ (SelectedVariant = INTENT \/ tracker # ACTION_LISTEN_NAME) =>
              prediction.optional_events = "None"

\* A prediction from the end-to-end variant of a batch of two, right after
\* action_listen, carries the entities event.
C4_Witness ==
    /\ pc = "predicted"
    /\ Len(tracker_state_features) = 2
    /\ prediction.is_end_to_end_prediction
    /\ prediction.optional_events = "EntitiesAdded"

\* C5: predict_action_probabilities on a policy without a trained model does
\* not fail, builds no features and runs no inference: it returns the default
\* prediction, one equal value per action of the domain.
C5_UntrainedGivesDefault ==
    (pc = "predicted" /\ model = "None") =>
        /\ prediction.kind = "default"
        /\ DOMAIN prediction.probabilities = ActionIds
        /\ \A a \in ActionIds, b \in ActionIds :
              prediction.probabilities[a] = prediction.probabilities[b]
        /\ tracker_state_features = <<>>
        /\ outputs = NoOutputs
        /\ picked = NotPicked
        /\ ~prediction.is_end_to_end_prediction
        /\ prediction.optional_events = "None"

\* A policy loaded from a directory without a data example was asked to predict.
C5_Witness ==
    /\ pc = "predicted"
    /\ model = "None"
    /\ config = DefaultConfig
    /\ prediction.kind = "default"

(***************************************************************************)
(* Claims about the TED model's data check                                 *)
(***************************************************************************)
HasUserAttribute == INTENT \in data_signature \/ TEXT \in data_signature
HasActionAttribute == ACTION_NAME \in data_signature \/ ACTION_TEXT \in data_signature
HasLabelAttribute == LABEL \in data_signature

\* C6: the data check fails, before anything of the model is built, for every
\* signature without a user attribute (intent, text), or without a previous
\* action attribute (action_name, action_text), or without the label attribute;
\* it passes only when all three are present.
C6_CheckDataFailsFast ==
    (ted.state # "idle") =>
        /\ (ted.raised = "none") <=>
              (HasUserAttribute /\ HasActionAttribute /\ HasLabelAttribute)
        /\ (ted.raised # "none") =>
              /\ ted.state = "failed"
              /\ ~ted.tf_label_data
              /\ ~ted.layers
        /\ (ted.raised = "none") => (ted.state = "constructed" /\ ted.layers)

\* A signature with user and action attributes but no label was rejected.
C6_Witness ==
    /\ ted.state = "failed"
    /\ HasUserAttribute
    /\ HasActionAttribute
    /\ ~HasLabelAttribute
    /\ ted.raised = "ValueError"

(***************************************************************************)
(* Claims about the label sampling metadata and the negative sampling      *)
(***************************************************************************)
Sampled == step.state = "done" /\ step.raised = "none"
RequestedFor(key) == label_sampling_metadata[key].label_batch_size
CandidatesFor(key) == label_sampling_metadata[key].num_label_candidates

ShareTimesBudget(key) == NumLabelIdsForKey(tf_label_data, key) * label_batch_size
MetadataComputed == label_sampling_metadata # NoMetadata
OneAttributePerLabel ==
    \A i \in DOMAIN tf_label_data.label_ids :
        Cardinality({key \in KeysOf(tf_label_data) : tf_label_data.mask[key][i]}) = 1
RECURSIVE RequestedSum(_)
RequestedSum(keys) ==
    IF keys = {} THEN 0
    ELSE LET key == CHOOSE k \in keys : TRUE
         IN RequestedFor(key) + RequestedSum(keys \ {key})

\* C8 as stated: for a budget B other than -1 every label attribute receives
\* max(1, round(share * B)), its share being its number of labels over the
\* total number of labels; with 100 action-name labels, 20 action-text labels
\* and B = 20 action-name receives 17 and action-text 3.
C8_Original_RoundedShare ==
    (MetadataComputed /\ label_batch_size >= 0) =>
        \A key \in KeysOf(tf_label_data) :
            RequestedFor(key) =
                Max(1, RoundHalfEven(ShareTimesBudget(key), NumLabelIds(tf_label_data)))

\* C8 (amended): for a budget B other than -1 every label attribute receives
\* max(1, int(share * B)), the product truncated, not rounded; for B >= 1 and
\* labels that carry one attribute each the counts sum to B within one; with
\* 100 action-name labels, 20 action-text labels and B = 20 action-name
\* receives 16 and action-text 3.
C8_TruncatedShare ==
    MetadataComputed =>
        /\ label_batch_size >= 0 =>
              \A key \in KeysOf(tf_label_data) :
                  LET c == RequestedFor(key)
                      n == NumLabelIds(tf_label_data)
                  IN \/ c * n <= ShareTimesBudget(key) /\ ShareTimesBudget(key) < (c + 1) * n
                                                        /\ c >= 1
                     \/ c = 1 /\ ShareTimesBudget(key) < n
        /\ label_batch_size < UNSET_LABEL_BATCH_SIZE =>
              \A key \in KeysOf(tf_label_data) : RequestedFor(key) = 1
        /\ (label_batch_size >= 1 /\ OneAttributePerLabel) =>
              RequestedSum(KeysOf(tf_label_data)) \in
                  (label_batch_size - 1) .. (label_batch_size + 1)
        /\ (tf_label_data = ScenarioLabelData /\ label_batch_size \in ScenarioBudgets) =>
              /\ RequestedFor(LABEL_ACTION_NAME) = 16
              /\ RequestedFor(LABEL_ACTION_TEXT) = 3

\* The metadata of 100 action-name labels and 20 action-text labels for a
\* budget of 20 has been computed.
C8_Witness ==
    /\ MetadataComputed
    /\ tf_label_data = ScenarioLabelData
    /\ label_batch_size \in ScenarioBudgets
    /\ RequestedFor(LABEL_ACTION_NAME) + RequestedFor(LABEL_ACTION_TEXT) = 19

\* C9: one call of negative sampling returns, for each label attribute, only
\* ids of the label space, at most the attribute's configured number of ids,
\* and no id twice.
C9_SampledIdsValidBoundedDistinct ==
    Sampled =>
        \A key \in KeysOf(tf_label_data) :
            LET ids == step.sampled[key]
            IN /\ \A j \in DOMAIN ids : ids[j] \in Values(tf_label_data.label_ids)
               /\ Shape0(ids) <= RequestedFor(key)
               /\ \A i \in DOMAIN ids, j \in DOMAIN ids : i # j => ids[i] # ids[j]

\* A draw of at least two ids for one attribute out of more candidates than
\* were asked for.
C9_Witness ==
    /\ Sampled
    /\ \E key \in KeysOf(tf_label_data) :
          /\ Shape0(step.sampled[key]) >= 2
          /\ CandidatesFor(key) > RequestedFor(key)

\* C10: the negatives drawn for a label attribute are ids whose presence mask
\* for that attribute is true.
C10_SampledIdsParticipate ==
    Sampled =>
        \A key \in KeysOf(tf_label_data) :
            \A j \in DOMAIN step.sampled[key] :
                tf_label_data.mask[key][step.sampled[key][j]]

\* An action-text draw on a label space with an action that has no
\* action-text features.
C10_Witness ==
    /\ Sampled
    /\ LABEL_ACTION_TEXT \in KeysOf(tf_label_data)
    /\ \E i \in DOMAIN tf_label_data.label_ids : ~tf_label_data.mask[LABEL_ACTION_TEXT][i]
    /\ Shape0(step.sampled[LABEL_ACTION_TEXT]) >= 1

(***************************************************************************)
(* Claims about the label embeddings of a training step                    *)
(***************************************************************************)
\* The row of the embedding table that belongs to a label id.
TableRowOf(id) ==
    step.all_labels_embed[CHOOSE i \in DOMAIN step.all_unique_label_ids :
                               step.all_unique_label_ids[i] = id]
\* The label keys whose features went into an embedding.
KeysEmbedded(embedding) == {x.of.of.of.key : x \in embedding}
LabelIdsEmbedded(embedding) == {x.of.of.of.label_id : x \in embedding}
GatheredFromTable(selection_ids, gathered) ==
    /\ DOMAIN gathered = DOMAIN selection_ids
    /\ \A s \in DOMAIN selection_ids : gathered[s] = TableRowOf(selection_ids[s])

\* C11: in every training step the embedding gathered for each positive slot
\* and each negative slot is the row of the one embedding table (computed once
\* over the unique ids) that belongs to the slot's label id, built from that
\* label's own features: one row per slot, in slot order; a positive and a
\* negative slot holding the same label id receive identical embeddings.
C11_GatheredEmbeddingPerSlot ==
    Sampled =>
        /\ DOMAIN step.all_labels_embed = DOMAIN step.all_unique_label_ids
        /\ \A i \in DOMAIN step.all_unique_label_ids :
              /\ LabelIdsEmbedded(step.all_labels_embed[i]) = {step.all_unique_label_ids[i]}
              /\ KeysEmbedded(step.all_labels_embed[i]) =
                     {key \in KeysOf(tf_label_data) :
                         tf_label_data.mask[key][step.all_unique_label_ids[i]]}
        /\ GatheredFromTable(positive_label_ids, step.positive_labels_embed)
        /\ GatheredFromTable(step.negative_label_ids, step.negative_labels_embed)
        /\ \A p \in DOMAIN positive_label_ids, n \in DOMAIN step.negative_label_ids :
              positive_label_ids[p] = step.negative_label_ids[n] =>
                  step.positive_labels_embed[p] = step.negative_labels_embed[n]

\* A step whose second positive slot and first negative slot hold the same
\* label id, with another id in the first positive slot and negatives drawn
\* in descending order, so that slot order and table order differ.
C11_Witness ==
    /\ Sampled
    /\ Shape0(positive_label_ids) = 2
    /\ Shape0(step.negative_label_ids) >= 2
    /\ positive_label_ids[1] = step.negative_label_ids[0]
    /\ positive_label_ids[0] # positive_label_ids[1]
    /\ step.negative_label_ids[0] > step.negative_label_ids[1]
    /\ step.positive_labels_embed[1] = step.negative_labels_embed[0]

\* C19: in every training step the ids for which label embeddings are computed
\* are exactly the union of the sampled negative ids and the batch's positive
\* ids: every such id, no other id, none twice, in strictly ascending order,
\* also when an id is drawn for two attributes or is positive and negative.
C19_UniqueIdsAreSortedUnion ==
    Sampled =>
        /\ Values(step.all_unique_label_ids) =
               Values(step.negative_label_ids) \cup Values(positive_label_ids)
        /\ \A i \in DOMAIN step.all_unique_label_ids,
              j \in DOMAIN step.all_unique_label_ids :
                  i < j => step.all_unique_label_ids[i] < step.all_unique_label_ids[j]

\* A step in which one id is drawn for both label keys and is a positive id
\* as well, and the ids were collected in descending order.
C19_Witness ==
    /\ Sampled
    /\ \E id \in Values(positive_label_ids) :
          \A key \in LabelKeys :
              key \in DOMAIN step.sampled /\ id \in Values(step.sampled[key])
    /\ Shape0(step.negative_label_ids) >= 2
    /\ step.negative_label_ids[0] > step.negative_label_ids[1]
    /\ Shape0(step.all_unique_label_ids) >= 2

(***************************************************************************)
(* Claims about one batch through the encoders and the tagger              *)
(***************************************************************************)
Forwarded == forward.state = "done" /\ forward.raised = "none"
BatchDim == Shape0(tf_batch_data.dialogue_lengths)
DialogueDim == NpMax(tf_batch_data.dialogue_lengths)
Positions == (0 .. (BatchDim - 1)) \X (0 .. (DialogueDim - 1))
\* The positions of an attribute's presence mask that are true, and the place
\* of one of them in example-major, then turn order.
TruePositions(attribute) ==
    {p \in Positions : tf_batch_data.mask[attribute][p[1]][p[2]]}
PlaceOf(attribute, p) ==
    Cardinality({q \in TruePositions(attribute) :
                    q[1] < p[1] \/ (q[1] = p[1] /\ q[2] < p[2])})
\* The feature row a layer output was computed from.
RECURSIVE Unwrap(_)
Unwrap(x) == IF "of" \in DOMAIN x THEN Unwrap(x.of) ELSE x
InputRowsOf(cell) == {Unwrap(x) : x \in cell}
\* A tensor that holds no value other than zero, and the tensor's own shape.
AllZero(tensor) ==
    \A i \in DOMAIN tensor.values :
        \A t \in DOMAIN tensor.values[i] : tensor.values[i][t] = ZeroVector
ValuesShape(tensor) ==
    IF Shape0(tensor.values) = 0 THEN <<Shape0(tensor.values)>>
    ELSE <<Shape0(tensor.values), Shape0(tensor.values[0])>>
Masked(attribute) == Positions \ TruePositions(attribute)

\* C20: in the restored tensor of every attribute with real features, the
\* position that is the k-th true position of the presence mask (example-major,
\* then turn order) holds the k-th flattened feature row and nothing else, and
\* every position whose mask is false holds zeros.
C20_RowsRestoredAtMaskPositions ==
    Forwarded =>
        \A a \in BatchAttributes :
            forward.batch_encoded[a].branch = "real" =>
                \A p \in Positions :
                    LET cell == forward.batch_encoded[a].attribute_features.values[p[1]][p[2]]
                    IN IF p \in TruePositions(a)
                       THEN /\ Cardinality(cell) = 1
                            /\ InputRowsOf(cell) =
                                   tf_batch_data.sentence[a][PlaceOf(a, p)]
                       ELSE cell = ZeroVector

\* A batch of two dialogues of different lengths whose second dialogue has an
\* intent at its first turn while the first dialogue has one at its second
\* turn only: the flattened rows do not stand at their turn numbers.
C20_Witness ==
    /\ Forwarded
    /\ BatchDim = 2
    /\ tf_batch_data.dialogue_lengths = (0 :> 2 @@ 1 :> 1)
    /\ TruePositions(INTENT) = {<<0, 1>>, <<1, 0>>}
    /\ forward.batch_encoded[INTENT].branch = "real"
    /\ forward.batch_encoded[INTENT].attribute_features.values[1][0] # ZeroVector

\* C12: for every batch and every attribute the per-turn output of the
\* attribute encoder has shape (batch, dialogue-length, units): one row per
\* example, one cell per turn of the longest dialogue, the attribute's unit
\* width, whether none, some or all turns are masked out for the attribute.
C12_EncoderOutputShape ==
    Forwarded =>
        \A a \in BatchAttributes :
            LET attribute_features == forward.batch_encoded[a].attribute_features
            IN /\ attribute_features.dims = <<BatchDim, DialogueDim>>
               /\ ValuesShape(attribute_features) = <<BatchDim, DialogueDim>>
               /\ \A i \in DOMAIN attribute_features.values :
                     Shape0(attribute_features.values[i]) = DialogueDim
               /\ attribute_features.units =
                      (IF a \in SENTENCE_FEATURES_TO_ENCODE THEN EncodingDimension
                       ELSE OutputUnits("sparse_dense_concat_layer", a))
               /\ Rank(attribute_features) = 3

\* A batch in which one attribute has no turn masked out, one has some and
\* one has all of them masked out.
C12_Witness ==
    /\ Forwarded
    /\ DialogueDim >= 2
    /\ Masked(ACTION_NAME) = {}
    /\ Masked(INTENT) # {} /\ TruePositions(INTENT) # {}
    /\ TruePositions(TEXT) = {}
    /\ forward.batch_encoded[TEXT].branch = "fake"
    /\ forward.batch_encoded[INTENT].branch = "real"

\* C13: the attribute encoder takes the fake branch exactly when the batch
\* holds no real instance of the attribute; its attribute features, text
\* output and text sequence lengths are then all zero and have the rank, the
\* element type and the unit width of the results of the real branch for the
\* same attribute.
C13_FakeBranchMatchesReal ==
    Forwarded =>
        \A a \in BatchAttributes :
            LET fake == forward.batch_encoded[a]
                real == EncodeRealFeaturesPerAttribute(
                            tf_batch_data, a, max_history_featurizer_is_used)
                results == {"attribute_features", "text_output", "text_sequence_lengths"}
            IN /\ (fake.branch = "fake") <=> (TruePositions(a) = {})
               /\ fake.branch = "fake" =>
                     /\ AllZero(fake.attribute_features)
                     /\ fake.text_output.values = <<>>
                     /\ fake.text_sequence_lengths.values = <<>>
                     /\ \A r \in results :
                           /\ Rank(fake[r]) = Rank(real[r])
                           /\ fake[r].dtype = real[r].dtype
                           /\ fake[r].units = real[r].units

\* A batch without user text and without slots: the fake branch is taken for
\* TEXT, whose text output has three axes, and for the state-level SLOTS,
\* while INTENT is encoded on the real branch.
C13_Witness ==
    /\ Forwarded
    /\ forward.batch_encoded[TEXT].branch = "fake"
    /\ Rank(forward.batch_encoded[TEXT].text_output) = 3
    /\ forward.batch_encoded[SLOTS].branch = "fake"
    /\ forward.batch_encoded[INTENT].branch = "real"

TrueEntries(row) == Cardinality({t \in DOMAIN row : row[t]})

\* C14 as stated: in every mode the validity mask returned by the dialogue
\* encoder has exactly length[i] true entries for example i.
C14_MaskHasLengthTrueEntries ==
    Forwarded =>
        \A i \in DOMAIN forward.dialogue.mask :
            TrueEntries(forward.dialogue.mask[i]) = tf_batch_data.dialogue_lengths[i]

\* C14, amended: in training on the full history the returned validity mask
\* spans the longest dialogue and is true on exactly the first length[i]
\* entries of example i; with the max-history featurizer, and in prediction,
\* the returned mask is cut to the one position that is kept of the dialogue:
\* a single entry per example, which is true.
C14_MaskPerMode ==
    Forwarded =>
        LET mask == forward.dialogue.mask
        IN /\ DOMAIN mask = DOMAIN tf_batch_data.dialogue_lengths
           /\ IF forward.handler = "batch_loss" /\ ~max_history_featurizer_is_used
              THEN \A i \in DOMAIN mask :
                      /\ DOMAIN mask[i] = 0 .. (DialogueDim - 1)
                      /\ \A t \in DOMAIN mask[i] :
                            mask[i][t] <=> t < tf_batch_data.dialogue_lengths[i]
              ELSE \A i \in DOMAIN mask :
                      /\ DOMAIN mask[i] = 0 .. 0
                      /\ mask[i][0]
                      /\ Shape0(forward.dialogue.dialogue_transformed[i]) = 1

\* A prediction on two dialogues of two turns and one turn: the returned mask
\* has one entry per example.
C14_Witness ==
    /\ Forwarded
    /\ forward.handler = "batch_predict"
    /\ tf_batch_data.dialogue_lengths = (0 :> 2 @@ 1 :> 1)
    /\ TrueEntries(forward.dialogue.mask[0]) = 1

\* C15: when the tagger is called on a batch without real text, tagging is
\* skipped: in training the entity loss is the constant 0 and no entity metric
\* is updated; in prediction the tag ids and the confidences are all zero and
\* have the first two dimensions of the text output as their shape.  The real
\* tagging path runs if and only if the text output has at least one row.
C15_TaggerSkippedWithoutText ==
    (Forwarded /\ forward.entities # TaggerNotCalled) =>
        LET text_output == forward.batch_encoded[TEXT].text_output
            entities == forward.entities
        IN /\ (entities.path = "real") <=> (Shape0(text_output.values) > 0)
           /\ entities.path \in {"real", "skipped"}
           /\ TruePositions(TEXT) = {} => entities.path = "skipped"
           /\ (entities.path = "skipped" /\ forward.handler = "batch_loss") =>
                 /\ entities.loss = "0.0"
                 /\ ~entities.metrics_updated
           /\ (entities.path = "skipped" /\ forward.handler = "batch_predict") =>
                 /\ entities.pred_ids.all_zero
                 /\ entities.confidences.all_zero
                 /\ Len(text_output.dims) = 2
                 /\ entities.pred_ids.dims = text_output.dims
                 /\ entities.confidences.dims = text_output.dims
                 /\ entities.pred_ids.dtype = "int32"
                 /\ entities.confidences.dtype = "float32"

\* A training step on a batch without user text: the tagger is called on the
\* empty text output and skips the tagging.
C15_Witness ==
    /\ Forwarded
    /\ forward.handler = "batch_loss"
    /\ TruePositions(TEXT) = {}
    /\ forward.batch_encoded[TEXT].text_output.dims = <<0, 0>>
    /\ forward.entities.path = "skipped"
    /\ forward.entities.loss = "0.0"

(***************************************************************************)
(* Claims about the cached label embeddings                                *)
(***************************************************************************)
Prepared == ~ted.all_labels_embed.is_none
PrepareDone == forward.handler = "prepare_for_predict" /\ forward.state = "done"
\* The places (batch, position) at which the batches of a prepare hold an id.
PlacesOfId(batches, id) ==
    {p \in UNION {{<<b, k>> : k \in DOMAIN batches[b]} : b \in DOMAIN batches} :
        batches[p[1]][p[2]] = id}

\* C16: once prepare_for_predict has assigned it, all_labels_embed has one row
\* per label id of the label space, row i being the embedding of the i-th
\* label id in ascending order, built from that label's own features, whether
\* computed at once or in batches; the batches of a prepare hold at most the
\* label batch size many ids each and every label id stands in exactly one of
\* them; the scores of a prediction have one entry per label id.
C16_CacheCoversLabelSpace ==
    /\ Prepared =>
          LET rows == ted.all_labels_embed.rows
              ids == tf_label_data.label_ids
          IN /\ DOMAIN rows = 0 .. (NumLabelIds(tf_label_data) - 1)
             /\ \A i \in DOMAIN rows :
                   /\ ids[i] = i
                   /\ Cardinality({j \in DOMAIN ids : ids[j] < ids[i]}) = i
                   /\ LabelIdsEmbedded(rows[i]) = {ids[i]}
                   /\ KeysEmbedded(rows[i]) =
                          {key \in KeysOf(tf_label_data) : tf_label_data.mask[key][ids[i]]}
    /\ PrepareDone =>
          /\ Prepared
          /\ (label_batch_size = -1) => (Len(forward.batches) = 1)
          /\ (label_batch_size # -1) =>
                \A b \in DOMAIN forward.batches :
                    /\ Shape0(forward.batches[b]) <= label_batch_size
                    /\ Shape0(forward.batches[b]) >= 1
          /\ \A id \in Values(tf_label_data.label_ids) :
                Cardinality(PlacesOfId(forward.batches, id)) = 1
    /\ (Forwarded /\ forward.handler = "batch_predict") =>
          /\ Prepared
          /\ forward.action_scores.dims[3] = NumLabelIds(tf_label_data)

\* Three labels prepared in batches of two: a full batch and a last one of
\* one id, three rows in the cache.
C16_Witness ==
    /\ PrepareDone
    /\ label_batch_size = 2
    /\ NumLabelIds(tf_label_data) = 3
    /\ Len(forward.batches) = 2
    /\ Shape0(forward.batches[2]) = 1
    /\ Shape0(ted.all_labels_embed.rows) = 3

\* One step of the model, as C17 wants it.
PredictStepKeepsCacheContract ==
    /\ (ted.all_labels_embed.is_none /\ forward' # forward
           /\ forward'.handler = "batch_predict") =>
              /\ forward'.raised = "ValueError"
              /\ "action_scores" \notin DOMAIN forward'
              /\ "entities" \notin DOMAIN forward'
              /\ ted' = ted
    /\ (~ted.all_labels_embed.is_none /\ forward'.handler = "batch_predict") =>
              forward'.raised = "none"
    /\ (ted'.all_labels_embed # ted.all_labels_embed) =>
              /\ forward'.handler = "prepare_for_predict"
              /\ forward'.state = "done"
              /\ ~ted'.all_labels_embed.is_none
              /\ ted'.all_labels_embed.rows =
                     ConcatAll([b \in DOMAIN forward'.batches |->
                                   ComputeEmbeddingForLabelIds(tf_label_data,
                                                               forward'.batches[b])])
    /\ (forward' # forward /\ forward'.handler = "prepare_for_predict"
           /\ forward'.state # "done") =>
              ted'.all_labels_embed = ted.all_labels_embed

\* C17: a model starts without cached label embeddings; a batch_predict on a
\* model without them raises an error, returns no prediction and leaves the
\* model as it was; the cache changes only when a prepare_for_predict
\* completes, which assigns the embeddings of the whole label space computed
\* in that call.
C17_PredictNeedsPrepare ==
    /\ ted.all_labels_embed.is_none
    /\ [][PredictStepKeepsCacheContract]_vars

\* A batch_predict has failed on a model that was never prepared.
C17_Witness ==
    /\ forward.state = "done"
    /\ forward.handler = "batch_predict"
    /\ forward.raised = "ValueError"
    /\ ted.all_labels_embed.is_none

C21_ReversedLastTurnKept ==
    Forwarded =>
        LET lengths == tf_batch_data.dialogue_lengths
            dialogue == forward.dialogue
        IN \A i \in DOMAIN lengths :
              IF max_history_featurizer_is_used
              THEN /\ DOMAIN dialogue.dialogue_in[i] = 0 .. (DialogueDim - 1)
                   /\ \A t \in DOMAIN dialogue.dialogue_in[i] :
                         dialogue.dialogue_in[i][t] =
                             (IF t < lengths[i] THEN lengths[i] - 1 - t ELSE t)
                   /\ DOMAIN dialogue.dialogue_transformed[i] = 0 .. 0
                   /\ dialogue.dialogue_transformed[i][0] = lengths[i] - 1
              ELSE \A t \in DOMAIN dialogue.dialogue_in[i] :
                         dialogue.dialogue_in[i][t] = t

\* Two dialogues of two turns and of one turn, the shorter one padded, with
\* the max-history featurizer: position 0 of the second example is its only
\* turn, not the padding.
C21_Witness ==
    /\ Forwarded
    /\ max_history_featurizer_is_used
    /\ tf_batch_data.dialogue_lengths = (0 :> 2 @@ 1 :> 1)
    /\ forward.dialogue.dialogue_transformed[0][0] = 1
    /\ forward.dialogue.dialogue_transformed[1][0] = 0

\* C22: without the max-history featurizer, a prediction keeps for every
\* example the one output position of its last valid turn, index length - 1,
\* and a training step keeps every position of the longest dialogue.
C22_LastValidTurnInPrediction ==
    (Forwarded /\ ~max_history_featurizer_is_used) =>
        LET lengths == tf_batch_data.dialogue_lengths
            dialogue_transformed == forward.dialogue.dialogue_transformed
        IN \A i \in DOMAIN lengths :
              IF forward.handler = "batch_predict"
              THEN /\ DOMAIN dialogue_transformed[i] = 0 .. 0
                   /\ dialogue_transformed[i][0] = lengths[i] - 1
              ELSE /\ DOMAIN dialogue_transformed[i] = 0 .. (DialogueDim - 1)
                   /\ \A t \in DOMAIN dialogue_transformed[i] :
                         dialogue_transformed[i][t] = t

\* A prediction on the full history of a padded dialogue of one turn next to
\* one of two turns.
C22_Witness ==
    /\ Forwarded
    /\ ~max_history_featurizer_is_used
    /\ forward.handler = "batch_predict"
    /\ tf_batch_data.dialogue_lengths = (0 :> 2 @@ 1 :> 1)
    /\ forward.dialogue.dialogue_transformed[1][0] = 0
    /\ forward.dialogue.dialogue_transformed[0][0] = 1

\* The flattened position of the last turn of dialogue i.
LastTurnPosition(lengths, i) == ReduceSum(lengths, i + 1) - 1
LastTurnsMaskBuilt ==
    forward.state = "done" /\ forward.handler = "_create_last_dialogue_turns_mask"

\* C24: for every vector of dialogue lengths of at least 1, the last-turn
\* mask built from the flattened dialogue indices has one entry per flattened
\* turn and is true at position j if and only if j is the last turn of some
\* dialogue; it has exactly one true entry per dialogue.
C24_LastTurnsMask ==
    LastTurnsMaskBuilt =>
        LET lengths == tf_batch_data.dialogue_lengths
            mask == forward.last_dialogue_turn_mask
        IN /\ DOMAIN mask = 0 .. (ReduceSum(lengths, Shape0(lengths)) - 1)
           /\ \A j \in DOMAIN mask :
                 mask[j] <=> \E i \in DOMAIN lengths : j = LastTurnPosition(lengths, i)
           /\ TrueEntries(mask) = Shape0(lengths)

\* The lengths [2, 1, 3] give the mask [0, 1, 1, 0, 0, 1].
C24_Witness ==
    /\ LastTurnsMaskBuilt
    /\ tf_batch_data.dialogue_lengths = (0 :> 2 @@ 1 :> 1 @@ 2 :> 3)
    /\ forward.last_dialogue_turn_mask =
           (0 :> FALSE @@ 1 :> TRUE @@ 2 :> TRUE @@ 3 :> FALSE @@ 4 :> FALSE @@ 5 :> TRUE)

(***************************************************************************)
(* Claims about the termination of prepare_for_predict                     *)
(***************************************************************************)
\* C27 as stated: for every label space and every label batch size, a
\* prepare_for_predict has returned, with the index beyond the last label id,
\* after no more embedding calls than there are label ids.
C27_PrepareTerminates ==
    forward.handler = "prepare_for_predict" =>
        /\ forward.state = "done"
        /\ forward.embedding_calls <= NumLabelIds(tf_label_data)

(***************************************************************************)
(* Claims about the label ids handed to the label embedder                 *)
(***************************************************************************)
\* The label keys of which a set of label ids holds no label: the keys whose
\* features reach the real encoder with zero rows.
KeysWithoutInstance(label_data, label_ids) ==
    {key \in KeysOf(label_data) :
        Shape0(FilterLabelData(label_data, label_ids).sentence[key]) = 0}

\* C28 as stated, for prepare_for_predict: every batch of label ids handed to
\* the label embedder holds, for every label key, at least one id that has the
\* key, so no key is encoded on zero rows.
C28_EveryKeyInEveryBatch ==
    PrepareDone =>
        \A b \in DOMAIN forward.batches :
            KeysWithoutInstance(tf_label_data, forward.batches[b]) = {}

(***************************************************************************)
(* Claims about the size of the draws                                      *)
(***************************************************************************)
\* C29: a training step whose label batch size passes the check at the start
\* of the sampling asks the sampler, for every label key, for at most as many
\* ids as the key has candidates: the unique sampler is never asked for more
\* distinct ids than exist, and every key receives the number it asked for.
C29_RequestWithinCandidates ==
    (step.state = "done" /\ step.raised # "TFLayerConfigException") =>
        /\ step.raised = "none"
        /\ \A key \in KeysOf(tf_label_data) :
              /\ RequestedFor(key) >= 1
              /\ RequestedFor(key) <= CandidatesFor(key)
              /\ Shape0(step.sampled[key]) = RequestedFor(key)

\* A label batch size equal to the size of a label space with both label
\* keys, the largest that passes the check: each key is asked for ids, one of
\* them for all of its candidates.
C29_Witness ==
    /\ Sampled
    /\ label_batch_size = NumLabelIds(tf_label_data)
    /\ KeysOf(tf_label_data) = LabelKeys
    /\ \E key \in LabelKeys : RequestedFor(key) = CandidatesFor(key)
    /\ \E key \in LabelKeys : CandidatesFor(key) >= 2

(***************************************************************************)
(* Claims about the end-to-end-only flag and the variants of a prediction  *)
(***************************************************************************)
\* C26 as stated: after any sequence of construction, training, persisting,
\* loading and predicting, the only_e2e flag of the policy equals "text is
\* among the fake features the policy holds and intent is not".
C26_FlagFollowsFakeFeatures ==
    only_e2e = OnlyE2E(fake_features)

\* C30: a prediction of a trained policy hands the router two variants exactly
\* when the tracker's latest action is action_listen, text is among the fake
\* features and the policy's only_e2e flag is false, and one variant otherwise;
\* the router never raises in a prediction; an untrained policy hands it
\* nothing; an end-to-end selection among two variants happens only right
\* after action_listen.
C30_TwoVariantsOnlyAfterListen ==
    pc = "predicted" =>
        IF model = "None"
        THEN tracker_state_features = <<>> /\ picked = NotPicked
        ELSE /\ Len(tracker_state_features) \in {1, 2}
             /\ Len(tracker_state_features) = 2 <=>
                   (/\ tracker = ACTION_LISTEN_NAME
                    /\ TEXT \in fake_features
                    /\ ~only_e2e)
             /\ Shape0(outputs.action_scores) = Len(tracker_state_features)
             /\ picked.raised = "none"
             /\ prediction.kind = "model"
             /\ (Len(tracker_state_features) = 2 /\ picked.is_e2e) =>
                   tracker = ACTION_LISTEN_NAME

\* A prediction right after action_listen in which the text variant was picked
\* out of two.
C30_Witness ==
    /\ pc = "predicted"
    /\ model = "TED"
    /\ tracker = ACTION_LISTEN_NAME
    /\ Len(tracker_state_features) = 2
    /\ tracker_state_features[2] = TEXT
    /\ picked.is_e2e
    /\ prediction.is_end_to_end_prediction

(***************************************************************************)
(* TEDPolicy.train(): the entity tags and the real-versus-fake decision    *)
(*                                                                         *)
(* train() never calls _create_model_data itself: it hands the method to   *)
(* two batch generators, the first over the example tracker and the second *)
(* over the training trackers.  A generator builds its model data with     *)
(* the method it was handed, on the data of one batch at a time.           *)
(***************************************************************************)
MaxTrackers == 2

\* The tag ids of one turn: none for a turn without user text (an empty dict),
\* else one id per token, 0 for a token outside every entity.
TurnTags == {<<>>, <<0>>, <<0, 1>>}
TrackerTags == [1 .. 2 -> TurnTags]
TrainingTags == UNION {[1 .. n -> TrackerTags] : n \in 1 .. MaxTrackers}

\* The example tracker is built from a user message "hello" without entities
\* followed by an action: its text tokens carry the no-entity tag.
ExampleEntityTags == << <<<<0>>, <<>>>> >>

\* _should_extract_entities: some turn has tags and one of them is not 0.
ShouldExtractEntities(tags) ==
    \E i \in DOMAIN tags : \E t \in DOMAIN tags[i] :
        /\ tags[i][t] # <<>>
        /\ \E k \in DOMAIN tags[i][t] : tags[i][t][k] # 0

\* _create_data_for_entities: the tag data it returns (<<>> for None) and the
\* value it leaves in config[ENTITY_RECOGNITION].
CreateDataForEntities(entity_recognition, tags) ==
    IF ~entity_recognition
    THEN [entity_recognition |-> FALSE, entity_tags_data |-> <<>>]
    ELSE IF tags # <<>> /\ ShouldExtractEntities(tags)
         THEN [entity_recognition |-> TRUE, entity_tags_data |-> tags]
         ELSE [entity_recognition |-> FALSE, entity_tags_data |-> <<>>]

\* _create_model_data called with label ids: the fake features are replaced by
\* the attributes of the data it was given, the entity decision is taken on the
\* tags it was given.
CreateModelData(tags, next_state, served) ==
    LET made == CreateDataForEntities(config.entity_recognition, tags)
    IN /\ \E observed \in (SUBSET UserAttributes) \ {{}} : fake_features' = observed
       /\ config' = [config EXCEPT !.entity_recognition = made.entity_recognition]
       /\ train_call' = [train_call EXCEPT
                         !.state = next_state,
                         !.served = served,
                         !.entity_tags_data = made.entity_tags_data,
                         !.produced = train_call.produced \/ made.entity_tags_data # <<>>]

\* temp_data_generator.get_data_signatures(): the model data of the example
\* tracker.
GetDataSignatures ==
    /\ train_call.state = "featurized"
    /\ CreateModelData(ExampleEntityTags, "signature", 0)
    /\ UNCHANGED <<model, only_e2e, persisted, entity_tags>>
    /\ UNCHANGED <<callVars, buildVars, trainVars, batchVars>>

\* self.model = TED(model_data.get_signature(), self.config, ...).
BuildModel ==
    /\ train_call.state = "signature"
    /\ model' = "TED"
    /\ train_call' = [train_call EXCEPT
                      !.state = "fitting",
                      !.model_entity_recognition = config.entity_recognition]
    /\ UNCHANGED <<fake_features, only_e2e, config, persisted, entity_tags>>
    /\ UNCHANGED <<callVars, buildVars, trainVars, batchVars>>

\* self.model.fit(data_generator, ...): the generator makes the model data of
\* the next batch of training trackers.
FitBatch ==
    /\ train_call.state = "fitting"
    /\ \E size \in 1 .. (Len(entity_tags) - train_call.served) :
          CreateModelData(SubSeq(entity_tags, train_call.served + 1,
                                 train_call.served + size),
                          "fitting", train_call.served + size)
    /\ UNCHANGED <<model, only_e2e, persisted, entity_tags>>
    /\ UNCHANGED <<callVars, buildVars, trainVars, batchVars>>

\* fit() returns when the generator has gone through the training trackers.
FitEnd ==
    /\ train_call.state = "fitting"
    /\ train_call.served = Len(entity_tags)
    /\ train_call' = [train_call EXCEPT !.state = "trained"]
    /\ UNCHANGED <<policyVars, entity_tags>>
    /\ UNCHANGED <<callVars, buildVars, trainVars, batchVars>>

\* train() after create_tracker_states_actions_entity_tags, on a policy
\* constructed with entity recognition on or off.
EntitiesInit ==
    /\ model = "None"
    /\ fake_features = {}
    /\ only_e2e = FALSE
    /\ config \in {[DefaultConfig EXCEPT !.entity_recognition = b] : b \in BOOLEAN}
    /\ persisted = NothingPersisted
    /\ CallIdle
    /\ BuildIdle
    /\ TrainIdle
    /\ BatchIdle
    /\ entity_tags \in TrainingTags
    /\ train_call = [NoTraining EXCEPT !.state = "featurized",
                                     !.configured = config.entity_recognition]

EntitiesNext ==
    \/ GetDataSignatures
    \/ BuildModel
    \/ FitBatch
    \/ FitEnd

SpecEntities == EntitiesInit /\ [][EntitiesNext]_vars

\* C25: when train() is through, entity recognition is on exactly when it was
\* configured on and some tag of the training set is not the no-entity tag,
\* and tag data was produced exactly then.
C25_DecisionOverWholeTrainingSet ==
    train_call.state = "trained" =>
        /\ config.entity_recognition <=>
              (train_call.configured /\ ShouldExtractEntities(entity_tags))
        /\ train_call.produced <=>
              (train_call.configured /\ ShouldExtractEntities(entity_tags))

(***************************************************************************)
(* Claims about the context of the entity tagger                           *)
(***************************************************************************)
\* The tagger's context was asked for in the pass that has just ended.
ContextSpliced ==
    /\ forward.state = "done"
    /\ forward.handler \in {"batch_loss", "batch_predict"}
    /\ forward.reshaped.called
\* The example and turn of the text a row of the text output was computed from.
OwnerOf(text_row) ==
    {[example |-> x.example, turn |-> x.turn] : x \in InputRowsOf(text_row)}

\* C23: with or without the max-history featurizer, in training and in
\* prediction, whenever the tagger's context is built it is built without an
\* error, the rows of the dialogue transformer's output picked by the text mask
\* are as many as the rows of the text output, and the k-th text row is joined
\* to the dialogue transformer's output for the turn that text belongs to.
C23_TextRowsMeetOwnTurn ==
    ContextSpliced =>
        /\ forward.reshaped.raised = "none"
        /\ Shape0(forward.reshaped.dialogue_transformer_output) =
               Shape0(forward.reshaped.text_transformed)
        /\ \A k \in DOMAIN forward.reshaped.text_transformed :
               forward.reshaped.text_transformed[k].context =
                   OwnerOf(forward.reshaped.text_transformed[k].text)

\* The same for the passes other than a prediction with the whole history.
C23_OwnTurnOutsideFullHistoryPrediction ==
    (ContextSpliced /\ (max_history_featurizer_is_used \/ forward.handler = "batch_loss")) =>
        /\ forward.reshaped.raised = "none"
        /\ Shape0(forward.reshaped.dialogue_transformer_output) =
               Shape0(forward.reshaped.text_transformed)
        /\ \A k \in DOMAIN forward.reshaped.text_transformed :
               forward.reshaped.text_transformed[k].context =
                   OwnerOf(forward.reshaped.text_transformed[k].text)

====
